---- MODULE Spec2Model ----
(***************************************************************************)
(* Model of src/config.js (Pauker-Tool): GameBase payload loading and      *)
(* randomization, the navigation state of the application shell, and the   *)
(* remote re-index.                                                        *)
(*                                                                         *)
(* JSON text is a tree value [t, s, e]; JavaScript objects and arrays live *)
(* in a heap of cells addressed by references, so that aliasing between    *)
(* the input and the result of _randomizePayload can be observed.          *)
(*                                                                         *)
(* Six specifications share the variables: SpecRand runs                  *)
(* _randomizePayload on its own over a family of payloads; SpecNav is the  *)
(* shell opened from a local copy, started from every kind of stored       *)
(* state; SpecIndex is the shell on GitHub Pages with the remote re-index  *)
(* and the fetch of node data; SpecGame is the shell with the shipped      *)
(* index together with the game frames it loads; SpecOps calls the         *)
(* operations of the navigation state and the lookups with any id;         *)
(* SpecTools runs the two index builders, scanDir and                      *)
(* buildTreeFromFlatList, on their own over folders and listings.          *)
(***************************************************************************)
EXTENDS Integers, Sequences, FiniteSets, TLC

VARIABLES
    \* the randomization on its own
    heap,           \* the JavaScript heap: a sequence of cells
    data,           \* the payload handed to _randomizePayload
    orig,           \* the JSON text data was parsed from
    result,         \* the value _randomizePayload returned
    ok,             \* whether it returned (FALSE: it threw)
    phase,          \* "input", "done", "mutated"; "off" in the other specifications
    drawn,          \* history: the indices j shuffle drew, for i from n down to 2
    \* the application shell
    stored,         \* localStorage['paukerAppState_v1']
    remoteIndex,    \* localStorage['pauker_remote_index_v1']
    session,        \* sessionStorage['game_payload_' + id], by id
    site,           \* where the page is served from: "local", "repo", "root"
    page,           \* "unloaded" until init() has run, then "ready"
    appState,       \* the in-memory navigation state
    isResizing,     \* initResizer's flag
    rootTree,       \* the in-memory index tree
    rendered,       \* whether buildTreeHelper built the tree and its handlers
    view,           \* what viewBodyEl holds besides game frames
    frames,         \* the game iframes in viewBodyEl, in order
    pending,        \* ids whose renderViewForId awaits its fetch
    clearPc,        \* "listing" while clearDriveCache awaits the remote listing
    loads,          \* history: the payloads _loadPayload returned, in order
    lastOp,         \* history: the handler that ran last
    \* the index builders on their own
    disk,           \* the entries of the database folder, as readdirSync lists them
    scanned,        \* what scanDir returned for disk
    listing,        \* the entries of a recursive tree listing under database/
    built           \* what buildTreeFromFlatList returned for listing

randVars == <<heap, data, orig, result, ok, phase, drawn>>

appVars == <<stored, remoteIndex, session, site, page, appState, isResizing,
             rootTree, rendered, view, frames, pending, clearPc, loads, lastOp>>

toolVars == <<disk, scanned, listing, built>>

vars == <<randVars, appVars, toolVars>>

-----------------------------------------------------------------------------
(* JSON text values: what JSON.stringify writes and JSON.parse reads.      *)
(* A value is [t, s, k, e]: its kind t, the text s of a primitive, the key *)
(* k under which it is a member of an object ("" otherwise) and, for an    *)
(* object or array, the sequence e of its members or elements in order.    *)

Fields == <<"game_type", "gameType", "title", "type", "sections", "questions",
            "options", "sortCards", "rows", "sets", "cards", "columns",
            "answerLabels", "legalForms", "cases", "whys">>

Leaf(t, s) == [t |-> t, s |-> s, k |-> "", e |-> <<>>]

Absent == Leaf("absent", "")

NullV == Leaf("null", "")

S(x) == Leaf("str", x)

Num(x) == Leaf("num", x)

A(elems) == [t |-> "arr", s |-> "", k |-> "", e |-> elems]

\* the object with the members of record r, in the order of Fields (JSON
\* text has no member without a value)
O(r) ==
    LET keys == SelectSeq(Fields, LAMBDA f : f \in DOMAIN r /\ r[f].t # "absent")
    IN [t |-> "obj", s |-> "", k |-> "",
        e |-> [i \in 1..Len(keys) |-> [r[keys[i]] EXCEPT !.k = keys[i]]]]

HasField(v, name) == v.t = "obj" /\ \E i \in 1..Len(v.e) : v.e[i].k = name

FieldOf(v, name) ==
    IF HasField(v, name)
    THEN [v.e[CHOOSE i \in 1..Len(v.e) : v.e[i].k = name] EXCEPT !.k = ""]
    ELSE Absent

-----------------------------------------------------------------------------
(* The JavaScript heap: a sequence of cells; a value [t, s, k, a] is a     *)
(* primitive or a reference to the cell at address a.                      *)

Ref(a) == [t |-> "ref", s |-> "", k |-> "", a |-> a]

Prim(t, s) == [t |-> t, s |-> s, k |-> "", a |-> 0]

Undefined == Prim("absent", "")

IsArray(h, x) == x.t = "ref" /\ h[x.a].t = "arr"

IsObject(h, x) == x.t = "ref" /\ h[x.a].t = "obj"

\* null and undefined: reading a property of them throws a TypeError
IsNullish(x) == x.t \in {"null", "absent"}

Truthy(x) ==
    CASE x.t = "ref" -> TRUE
      [] x.t = "str" -> x.s # ""
      [] x.t = "num" -> x.s # "0"
      [] x.t = "bool" -> x.s = "true"
      [] OTHER -> FALSE

HasOwn(h, x, name) ==
    IsObject(h, x) /\ \E i \in 1..Len(h[x.a].e) : h[x.a].e[i].k = name

\* x.name for a non-nullish x: a property of an object cell, undefined on
\* arrays and primitives (none of the names read is an array index or length)
Get(h, x, name) ==
    IF HasOwn(h, x, name)
    THEN [h[x.a].e[CHOOSE i \in 1..Len(h[x.a].e) : h[x.a].e[i].k = name]
             EXCEPT !.k = ""]
    ELSE Undefined

\* x.name = v: an own property keeps its place, a new one goes to the end
SetField(h, x, name, v) ==
    IF HasOwn(h, x, name)
    THEN [h EXCEPT ![x.a].e[CHOOSE i \in 1..Len(h[x.a].e) : h[x.a].e[i].k = name] =
                       [v EXCEPT !.k = name]]
    ELSE [h EXCEPT ![x.a].e = Append(@, [v EXCEPT !.k = name])]

Elems(h, x) == h[x.a].e

RECURSIVE SumTo(_, _)
SumTo(f, n) == IF n = 0 THEN 0 ELSE f[n] + SumTo(f, n - 1)

RECURSIVE ConcatTo(_, _)
ConcatTo(f, n) == IF n = 0 THEN <<>> ELSE ConcatTo(f, n - 1) \o f[n]

RECURSIVE CellCount(_)
\* the number of objects and arrays in a JSON text
CellCount(val) ==
    IF val.t \notin {"arr", "obj"} THEN 0
    ELSE 1 + SumTo([i \in 1..Len(val.e) |-> CellCount(val.e[i])], Len(val.e))

RECURSIVE Cells(_, _)
\* the cells JSON.parse builds for val when base cells exist already: those
\* of its members in order, then its own
Cells(val, base) ==
    IF val.t \notin {"arr", "obj"} THEN <<>>
    ELSE LET n == Len(val.e)
             cnt == [i \in 1..n |-> CellCount(val.e[i])]
             kids == [i \in 1..n |-> Cells(val.e[i], base + SumTo(cnt, i - 1))]
             vs == [i \in 1..n |->
                      [t |-> IF cnt[i] = 0 THEN val.e[i].t ELSE "ref",
                       s |-> val.e[i].s,
                       k |-> val.e[i].k,
                       a |-> IF cnt[i] = 0 THEN 0 ELSE base + SumTo(cnt, i)]]
         IN ConcatTo(kids, n) \o <<[t |-> val.t, e |-> vs]>>

\* JSON.parse: builds fresh cells for every object and array of the text
ParseV(h, val) ==
    IF val.t \notin {"arr", "obj"}
    THEN [h |-> h, v |-> [t |-> val.t, s |-> val.s, k |-> val.k, a |-> 0]]
    ELSE [h |-> h \o Cells(val, Len(h)),
          v |-> [t |-> "ref", s |-> "", k |-> val.k, a |-> Len(h) + CellCount(val)]]

RECURSIVE StringifyV(_, _)
\* JSON.stringify: follows references; an undefined array element is
\* written as null, an undefined object member is left out
StringifyV(h, x) ==
    IF x.t # "ref" THEN [t |-> x.t, s |-> x.s, k |-> x.k, e |-> <<>>]
    ELSE LET cell == h[x.a]
             kept == IF cell.t = "obj"
                     THEN SelectSeq(cell.e, LAMBDA m : m.t # "absent")
                     ELSE cell.e
         IN [t |-> cell.t, s |-> "", k |-> x.k,
             e |-> [i \in 1..Len(kept) |->
                      IF kept[i].t = "absent" THEN NullV
                      ELSE StringifyV(h, kept[i])]]

\* JSON.parse(JSON.stringify(data))
DeepClone(h, x) == ParseV(h, StringifyV(h, x))

RECURSIVE Reach(_, _)
\* the cells reachable from a value
Reach(h, x) ==
    IF x.t # "ref" THEN {}
    ELSE {x.a} \cup UNION {Reach(h, h[x.a].e[k]) : k \in 1..Len(h[x.a].e)}

-----------------------------------------------------------------------------
(* shuffle (Fisher-Yates on a copy), src/config.js 334-342.  The indices   *)
(* are 1-based here: for i = n down to 2, j is drawn from 1..i.            *)

SwapLossy(seq, i, j) == [seq EXCEPT ![i] = seq[j]]

Swap(seq, i, j) == [seq EXCEPT ![i] = seq[j], ![j] = seq[i]]

ChoiceSeqsWide(n) == [2..n -> 1..n]

\* the values Math.floor(Math.random() * (i + 1)) can take at every step
ChoiceSeqs(n) == {f \in [2..n -> 1..n] : \A i \in 2..n : f[i] <= i}

FisherYatesDropping(seq, i, js) ==
    IF i < 2 THEN seq ELSE SubSeq(seq, 1, i - 1)

RECURSIVE FisherYates(_, _, _)
FisherYates(seq, i, js) ==
    IF i < 2 THEN seq ELSE FisherYates(Swap(seq, i, js[i]), i - 1, js)

\* the outcome [h, v] of shuffle(x) on an array when the random source
\* gives the indices js
ShuffleWith(h, x, js) ==
    [h |-> Append(h, [t |-> "arr",
                      e |-> FisherYates(Elems(h, x), Len(Elems(h, x)), js)]),
     v |-> Ref(Len(h) + 1)]

\* every outcome [h, v] of shuffle(x): x itself when it is no array
Shuffle(h, x) ==
    IF ~IsArray(h, x) THEN {[h |-> h, v |-> x]}
    ELSE {ShuffleWith(h, x, js) : js \in ChoiceSeqs(Len(Elems(h, x)))}

-----------------------------------------------------------------------------
(* GameBase._randomizePayload, src/config.js 331-391.  Every operator      *)
(* returns the set of its possible outcomes: one per value the random      *)
(* source can give.  An outcome [h, ok] is the heap after the step and     *)
(* whether the step returned (ok) or threw a TypeError.                    *)

Failed(h) == [h |-> h, ok |-> FALSE]

TypeIs(type, name) == type.t = "str" /\ type.s = name

PayloadTypeDefaulted(h, res) ==
    IF Truthy(Get(h, res, "game_type")) THEN Get(h, res, "game_type")
    ELSE IF Truthy(Get(h, res, "gameType")) THEN Get(h, res, "gameType")
    ELSE Prim("str", "escape_game")

PayloadTypeCamelFirst(h, res) ==
    IF Truthy(Get(h, res, "gameType")) THEN Get(h, res, "gameType")
    ELSE Get(h, res, "game_type")

\* result.game_type || result.gameType
PayloadType(h, res) ==
    IF Truthy(Get(h, res, "game_type")) THEN Get(h, res, "game_type")
    ELSE Get(h, res, "gameType")

\* if (Array.isArray(x.field)) x.field = shuffle(x.field)
ShuffleField(o, x, field) ==
    IF ~o.ok THEN {o}
    ELSE IF IsArray(o.h, Get(o.h, x, field))
    THEN {[h |-> SetField(s.h, x, field, s.v), ok |-> TRUE] :
             s \in Shuffle(o.h, Get(o.h, x, field))}
    ELSE {o}

\* q => { if (Array.isArray(q.options)) q.options = shuffle(q.options); return q; }
QuestionStepFirst(o, elems, k) ==
    IF ~o.ok THEN {o}
    ELSE IF IsNullish(elems[k]) \/ IsNullish(elems[1]) THEN {Failed(o.h)}
    ELSE IF IsArray(o.h, Get(o.h, elems[k], "options"))
    THEN {[h |-> SetField(s.h, elems[k], "options", s.v), ok |-> TRUE] :
             s \in Shuffle(o.h, Get(o.h, elems[1], "options"))}
    ELSE {o}

QuestionStep(o, elems, k) ==
    IF ~o.ok THEN {o}
    ELSE IF IsNullish(elems[k]) THEN {Failed(o.h)}
    ELSE ShuffleField(o, elems[k], "options")

\* o => { if (Array.isArray(o.whys)) o.whys = shuffle(o.whys); return o; }
OptionStep(o, elems, k) ==
    IF ~o.ok THEN {o}
    ELSE IF IsNullish(elems[k]) THEN {Failed(o.h)}
    ELSE ShuffleField(o, elems[k], "whys")

RECURSIVE MapElems(_, _, _, _)
RECURSIVE ShuffleMap(_, _, _, _)
RECURSIVE SectionStep(_, _, _)
RECURSIVE CaseStep(_, _, _)

\* the callback of a map, by the kind of element it is written for
Callback(o, elems, k, kind) ==
    CASE kind = "section" -> SectionStep(o, elems, k)
      [] kind = "question" -> QuestionStep(o, elems, k)
      [] kind = "case" -> CaseStep(o, elems, k)
      [] kind = "option" -> OptionStep(o, elems, k)

\* Array.prototype.map: the callback on every element in order; an
\* exception ends the loop
MapElems(outs, elems, k, kind) ==
    IF k > Len(elems) THEN outs
    ELSE MapElems(UNION {Callback(o, elems, k, kind) : o \in outs},
                  elems, k + 1, kind)

\* x.field = shuffle(x.field).map(callback), for an array x.field: the
\* callbacks change the elements in place and return them, and map
\* collects them in a new array
ShuffleMap(o, x, field, kind) ==
    IF ~o.ok THEN {o}
    ELSE UNION {
        LET elems == Elems(s.h, s.v)
        IN {IF d.ok
            THEN [h |-> SetField(Append(d.h, [t |-> "arr", e |-> elems]),
                                 x, field, Ref(Len(d.h) + 1)),
                  ok |-> TRUE]
            ELSE d : d \in MapElems({[h |-> s.h, ok |-> TRUE]}, elems, 1, kind)}
        : s \in Shuffle(o.h, Get(o.h, x, field))}

\* the callback on a section, lines 351-366
SectionStep(o, elems, k) ==
    IF ~o.ok THEN {o}
    ELSE IF IsNullish(elems[k]) THEN {Failed(o.h)}
    ELSE LET s == elems[k]
             type == Get(o.h, s, "type")
             quiz == IF TypeIs(type, "quiz") /\ IsArray(o.h, Get(o.h, s, "questions"))
                     THEN ShuffleMap(o, s, "questions", "question")
                     ELSE {o}
             sort == UNION {IF TypeIs(type, "sort")
                            THEN ShuffleField(o1, s, "sortCards")
                            ELSE {o1} : o1 \in quiz}
         IN UNION {IF o2.ok /\ TypeIs(type, "capital")
                      /\ IsArray(o2.h, Get(o2.h, s, "rows"))
                   THEN ShuffleMap(o2, s, "rows", "question")
                   ELSE {o2} : o2 \in sort}

\* the callback on a case, lines 379-387
CaseStep(o, elems, k) ==
    IF ~o.ok THEN {o}
    ELSE IF IsNullish(elems[k]) THEN {Failed(o.h)}
    ELSE IF IsArray(o.h, Get(o.h, elems[k], "options"))
    THEN ShuffleMap(o, elems[k], "options", "option")
    ELSE {o}

\* the dispatch on the content type, lines 350-388
Dispatch(o, res, type) ==
    IF TypeIs(type, "escape_game") /\ IsArray(o.h, Get(o.h, res, "sections"))
    THEN ShuffleMap(o, res, "sections", "section")
    ELSE IF TypeIs(type, "matching_puzzle") /\ IsArray(o.h, Get(o.h, res, "sets"))
    THEN ShuffleField(o, res, "sets")
    ELSE IF TypeIs(type, "sortier_spiel") /\ IsArray(o.h, Get(o.h, res, "cards"))
    THEN UNION {ShuffleField(o1, res, "columns") :
                   o1 \in ShuffleField(o, res, "cards")}
    ELSE IF TypeIs(type, "quick_quiz") /\ IsArray(o.h, Get(o.h, res, "questions"))
    THEN UNION {ShuffleField(o1, res, "answerLabels") :
                   o1 \in ShuffleField(o, res, "questions")}
    ELSE IF TypeIs(type, "wer_bin_ich")
    THEN UNION {ShuffleField(o1, res, "questions") :
                   o1 \in ShuffleField(o, res, "legalForms")}
    ELSE IF TypeIs(type, "what_and_why") /\ IsArray(o.h, Get(o.h, res, "cases"))
    THEN ShuffleMap(o, res, "cases", "case")
    ELSE {o}

\* const result = JSON.parse(JSON.stringify(data)), line 345
CloneNone(h, x) == [h |-> h, v |-> x]

CloneForRandomize(h, x) == DeepClone(h, x)

\* every outcome [h, v, ok] of _randomizePayload(data): the heap after the
\* call, the value returned and whether the call returned at all
RandomizePayload(h, x) ==
    IF ~Truthy(x) \/ x.t # "ref" THEN {[h |-> h, v |-> x, ok |-> TRUE]}
    ELSE LET c == CloneForRandomize(h, x)
             res == c.v
             type == PayloadType(c.h, res)
         IN {[h |-> d.h, v |-> IF d.ok THEN res ELSE Undefined, ok |-> d.ok] :
                d \in Dispatch([h |-> c.h, ok |-> TRUE], res, type)}

-----------------------------------------------------------------------------
(* The payloads the randomization is run on.                               *)

MaxLen == 3

Letters == <<"a", "b", "a", "c", "d", "e">>

\* an array of n strings; from the third on, a value repeats
Strs(n) == A([k \in 1..n |-> S(Letters[k])])

Item(title, opts) == O([title |-> S(title), options |-> opts])

EscapePayload ==
    O([game_type |-> S("escape_game"), title |-> S("escape"),
       cards |-> Strs(2),
       sections |-> A(<<
          O([type |-> S("quiz"), title |-> S("s1"),
             questions |-> A(<<Item("q1", A(<<S("a"), S("b")>>)),
                               Item("q2", A(<<S("c")>>))>>),
             rows |-> A(<<Item("r9", A(<<S("a"), S("b")>>))>>)]),
          O([type |-> S("sort"), title |-> S("s2"),
             sortCards |-> A(<<S("x"), S("y")>>),
             questions |-> A(<<Item("q3", A(<<S("a"), S("b")>>)),
                               Item("q4", Absent)>>)]),
          O([type |-> S("capital"), title |-> S("s3"),
             rows |-> A(<<Item("r1", A(<<S("a"), S("b")>>)),
                          Item("r2", S("none"))>>)])>>)])

\* sections of an unknown type, with targets that are no arrays, and with
\* elements that are no objects
EscapeOddPayload ==
    O([gameType |-> S("escape_game"),
       sections |-> A(<<
          O([type |-> S("info"), title |-> S("s1"),
             questions |-> A(<<Item("q1", A(<<S("a"), S("b")>>))>>)]),
          O([type |-> S("quiz"), title |-> S("s2"), questions |-> S("none")]),
          S("text")>>)])

EscapeNullPayload ==
    O([game_type |-> S("escape_game"),
       sections |-> A(<<
          O([type |-> S("quiz"), title |-> S("s1"),
             questions |-> A(<<Item("q1", A(<<S("a"), S("b")>>)), NullV>>)]),
          O([type |-> S("sort"), title |-> S("s2"),
             sortCards |-> A(<<S("x"), S("y")>>)])>>)])

WhatAndWhyPayload ==
    O([game_type |-> S("what_and_why"), title |-> S("why"),
       questions |-> Strs(2),
       cases |-> A(<<
          O([title |-> S("c1"),
             options |-> A(<<O([title |-> S("o1"), whys |-> A(<<S("a"), S("b")>>)]),
                             O([title |-> S("o2"), whys |-> A(<<S("c"), S("d")>>),
                                options |-> Strs(2)])>>)]),
          O([title |-> S("c2"),
             options |-> A(<<O([title |-> S("o3"), whys |-> A(<<S("e")>>)])>>),
             whys |-> Strs(2)])>>)])

\* payloads whose targets are arrays of leaves, of every length to MaxLen
FlatPayloads ==
    UNION {
      { O([game_type |-> S("matching_puzzle"), sets |-> Strs(n), cards |-> Strs(2)]),
        O([game_type |-> S("sortier_spiel"), cards |-> Strs(n), columns |-> Strs(2)]),
        O([gameType |-> S("quick_quiz"), questions |-> Strs(n),
           answerLabels |-> Strs(2), sets |-> Strs(2)]),
        O([game_type |-> S("wer_bin_ich"), legalForms |-> Strs(n),
           questions |-> Strs(2), title |-> S("wer")]),
        O([game_type |-> S(""), gameType |-> S("matching_puzzle"), sets |-> Strs(n)]),
        O([game_type |-> S("quick_quiz"), gameType |-> S("matching_puzzle"),
           sets |-> Strs(2), questions |-> Strs(n)]) } : n \in 0..MaxLen}

\* a target that is absent or no array beside one that is an array
PartialPayloads ==
    { O([game_type |-> S("sortier_spiel"), columns |-> Strs(2)]),
      O([game_type |-> S("sortier_spiel"), cards |-> S("none"), columns |-> Strs(2)]),
      O([game_type |-> S("quick_quiz"), answerLabels |-> Strs(2)]),
      O([game_type |-> S("wer_bin_ich"), questions |-> Strs(2)]),
      O([game_type |-> S("matching_puzzle"), sets |-> Num("7")]) }

\* no discriminator, or one that is not in the table
UnknownTypePayloads ==
    UNION {
      { O([title |-> S("plain"), sections |-> Strs(n), sets |-> Strs(2),
           cases |-> A(<<O([title |-> S("c1"), options |-> Strs(2)])>>)]),
        O([game_type |-> S("memory"), cards |-> Strs(n), questions |-> Strs(2),
           sections |-> A(<<O([type |-> S("quiz"),
                               questions |-> A(<<Item("q1", Strs(2))>>)])>>)]),
        O([game_type |-> Num("0"), gameType |-> NullV, sets |-> Strs(n)]) }
      : n \in 1..MaxLen}

\* JSON texts that are no object
NonObjectPayloads == {NullV, S("text"), Strs(2)}

Payloads ==
    {EscapePayload, EscapeOddPayload, EscapeNullPayload, WhatAndWhyPayload}
        \cup FlatPayloads \cup PartialPayloads \cup UnknownTypePayloads
        \cup NonObjectPayloads

-----------------------------------------------------------------------------
(* The index tree.  A name is the sequence of its dot-separated parts      *)
(* ("quiz.json" is <<"quiz", "json">>), a path the sequence of its names;  *)
(* the id of a node is its path from the repository root.  A node is       *)
(* [id, name, isFolder, kind, hasChildren, children, data]: kind is ""     *)
(* and data is Absent when the node does not carry the member.             *)

DB == <<"database">>

Node(id, isFolder, kind, hasChildren, children, d) ==
    [id |-> id, name |-> id[Len(id)], isFolder |-> isFolder, kind |-> kind,
     hasChildren |-> hasChildren, children |-> children, data |-> d]

Folder(id, children) == Node(id, TRUE, "", TRUE, children, Absent)

File(id, kind, d) == Node(id, FALSE, kind, FALSE, <<>>, d)

RECURSIVE FindFromWide(_, _, _)
FindFromWide(nodes, i, id) ==
    IF i > Len(nodes) THEN <<>>
    ELSE IF \E j \in i..Len(nodes) : nodes[j].id = id
    THEN <<nodes[CHOOSE j \in i..Len(nodes) : nodes[j].id = id]>>
    ELSE LET f == IF nodes[i].hasChildren
                  THEN FindFromWide(nodes[i].children, 1, id)
                  ELSE <<>>
         IN IF f # <<>> THEN f ELSE FindFromWide(nodes, i + 1, id)

RECURSIVE FindFrom(_, _, _)
\* findNode from the i-th node of the list on: <<>> for null, <<n>> for n
FindFrom(nodes, i, id) ==
    IF i > Len(nodes) THEN <<>>
    ELSE IF nodes[i].id = id THEN <<nodes[i]>>
    ELSE LET f == IF nodes[i].hasChildren
                  THEN FindFrom(nodes[i].children, 1, id)
                  ELSE <<>>
         IN IF f # <<>> THEN f ELSE FindFrom(nodes, i + 1, id)

findNode(nodes, id) == FindFrom(nodes, 1, id)

RECURSIVE PathFrom(_, _, _, _)
\* findPath from the i-th node of the list on: <<>> for null, <<names>>
PathFrom(nodes, i, id, path) ==
    IF i > Len(nodes) THEN <<>>
    ELSE LET sub == Append(path, nodes[i].name)
         IN IF nodes[i].id = id THEN <<sub>>
            ELSE LET f == IF nodes[i].hasChildren
                          THEN PathFrom(nodes[i].children, 1, id, sub)
                          ELSE <<>>
                 IN IF f # <<>> THEN f ELSE PathFrom(nodes, i + 1, id, path)

findPath(nodes, id) == PathFrom(nodes, 1, id, <<>>)

RECURSIVE NodeIds(_)
\* the ids the nodes of a tree carry
NodeIds(nodes) ==
    UNION {{nodes[i].id} \cup NodeIds(nodes[i].children) : i \in 1..Len(nodes)}

RECURSIVE SetData(_, _, _, _)
\* node.data = d on the node findNode returns for id: [tree, done]
SetData(nodes, i, id, d) ==
    IF i > Len(nodes) THEN [tree |-> nodes, done |-> FALSE]
    ELSE IF nodes[i].id = id
    THEN [tree |-> [nodes EXCEPT ![i].data = d], done |-> TRUE]
    ELSE LET sub == IF nodes[i].hasChildren
                    THEN SetData(nodes[i].children, 1, id, d)
                    ELSE [tree |-> <<>>, done |-> FALSE]
         IN IF sub.done
            THEN [tree |-> [nodes EXCEPT ![i].children = sub.tree], done |-> TRUE]
            ELSE LET rest == SetData(nodes, i + 1, id, d)
                 IN [tree |-> rest.tree, done |-> rest.done]

-----------------------------------------------------------------------------
(* buildTreeFromFlatList, src/config.js 1304-1341.  The lookup table map   *)
(* is a sequence of entries [path, isFolder, kind, hasChildren, children], *)
(* children being the paths pushed to the entry, in order.                 *)

\* String.prototype.toLowerCase on the extensions that occur
ToLower(part) ==
    CASE part = "JSON" -> "json"
      [] part = "PDF" -> "pdf"
      [] part = "PPTX" -> "pptx"
      [] part = "PPT" -> "ppt"
      [] OTHER -> part

KindOfNameExact(name) ==
    LET ext == name[Len(name)]
    IN CASE ext = "json" -> "json"
         [] ext = "pdf" -> "pdf"
         [] ext \in {"pptx", "ppt"} -> "pptx"
         [] OTHER -> ""

\* part.split('.').pop().toLowerCase(), and the kind it stands for
KindOfName(name) ==
    LET ext == ToLower(name[Len(name)])
    IN CASE ext = "json" -> "json"
         [] ext = "pdf" -> "pdf"
         [] ext \in {"pptx", "ppt"} -> "pptx"
         [] OTHER -> ""

HasEntry(map, path) == \E i \in 1..Len(map) : map[i].path = path

EntryIdx(map, path) == CHOOSE i \in 1..Len(map) : map[i].path = path

BuildPartAlways(st, n, i) ==
    LET currentPath == SubSeq(n.path, 1, i)
        parentPath == SubSeq(n.path, 1, i - 1)
        isFolder == n.type = "tree" \/ i < Len(n.path)
        entry == [path |-> currentPath, isFolder |-> isFolder,
                  kind |-> IF isFolder THEN "" ELSE KindOfName(n.path[i]),
                  hasChildren |-> isFolder, children |-> <<>>]
    IN IF ~st.ok \/ i = 1 THEN st
       ELSE IF ~st.map[EntryIdx(st.map, parentPath)].hasChildren
       THEN [map |-> Append(st.map, entry), ok |-> FALSE]
       ELSE [map |-> Append([st.map EXCEPT ![EntryIdx(st.map, parentPath)].children =
                                Append(@, currentPath)], entry),
             ok |-> TRUE]

BuildPartToRoot(st, n, i) ==
    LET currentPath == SubSeq(n.path, 1, i)
        isFolder == n.type = "tree" \/ i < Len(n.path)
        entry == [path |-> currentPath, isFolder |-> isFolder,
                  kind |-> IF isFolder THEN "" ELSE KindOfName(n.path[i]),
                  hasChildren |-> isFolder, children |-> <<>>]
    IN IF ~st.ok \/ HasEntry(st.map, currentPath) THEN st
       ELSE [map |-> Append([st.map EXCEPT ![1].children =
                                Append(@, currentPath)], entry),
             ok |-> TRUE]

\* the body of parts.forEach for part i of listing entry n, lines 1312-1338
BuildPart(st, n, i) ==
    LET currentPath == SubSeq(n.path, 1, i)
        parentPath == SubSeq(n.path, 1, i - 1)
        isFolder == n.type = "tree" \/ i < Len(n.path)
        entry == [path |-> currentPath, isFolder |-> isFolder,
                  kind |-> IF isFolder THEN "" ELSE KindOfName(n.path[i]),
                  hasChildren |-> isFolder, children |-> <<>>]
    IN IF ~st.ok \/ HasEntry(st.map, currentPath) THEN st
       ELSE IF ~HasEntry(st.map, parentPath)
       THEN [map |-> Append(st.map, entry), ok |-> TRUE]
       ELSE IF ~st.map[EntryIdx(st.map, parentPath)].hasChildren
       THEN [map |-> Append(st.map, entry), ok |-> FALSE]
       ELSE [map |-> Append([st.map EXCEPT ![EntryIdx(st.map, parentPath)].children =
                                Append(@, currentPath)], entry),
             ok |-> TRUE]

RECURSIVE BuildFrom(_, _, _, _)
\* list.forEach from part i of entry e on
BuildFrom(st, list, e, i) ==
    IF e > Len(list) THEN st
    ELSE IF i > Len(list[e].path) THEN BuildFrom(st, list, e + 1, 1)
    ELSE BuildFrom(BuildPart(st, list[e], i), list, e, i + 1)

RECURSIVE NodeOfEntry(_, _)
\* the node object of an entry, with the nodes pushed to its children
NodeOfEntry(map, path) ==
    LET en == map[EntryIdx(map, path)]
    IN Node(en.path, en.isFolder, en.kind, en.hasChildren,
            [j \in 1..Len(en.children) |-> NodeOfEntry(map, en.children[j])],
            Absent)

\* [tree, ok]: the root list returned, or ok = FALSE when a push threw
buildTreeFromFlatList(list) ==
    LET start == [map |-> <<[path |-> <<DB>>, isFolder |-> TRUE, kind |-> "",
                             hasChildren |-> TRUE, children |-> <<>>]>>,
                  ok |-> TRUE]
        st == BuildFrom(start, list, 1, 1)
    IN [ok |-> st.ok,
        tree |-> IF st.ok THEN NodeOfEntry(st.map, <<DB>>).children ELSE <<>>]

-----------------------------------------------------------------------------
(* The shuffle table of the specification, on JSON text: which members of  *)
(* an object are shuffle targets, by the place of the object, and the      *)
(* place of their elements ("" when the member is no target).              *)

KnownTypes == {"escape_game", "matching_puzzle", "sortier_spiel", "quick_quiz",
               "wer_bin_ich", "what_and_why"}

TruthyText(v) ==
    CASE v.t \in {"obj", "arr"} -> TRUE
      [] v.t = "str" -> v.s # ""
      [] v.t = "num" -> v.s # "0"
      [] v.t = "bool" -> v.s = "true"
      [] OTHER -> FALSE

\* the content type a payload text states ("" when it states none)
TextType(v) ==
    LET t == IF TruthyText(FieldOf(v, "game_type")) THEN FieldOf(v, "game_type")
             ELSE FieldOf(v, "gameType")
    IN IF t.t = "str" THEN t.s ELSE ""

TargetPlace(place, v, field) ==
    LET type == FieldOf(v, "type")
    IN CASE place = "escape_game" /\ field = "sections" -> "section"
         [] place = "section" /\ type = S("quiz") /\ field = "questions" -> "item"
         [] place = "section" /\ type = S("sort") /\ field = "sortCards" -> "leaf"
         [] place = "section" /\ type = S("capital") /\ field = "rows" -> "item"
         [] place = "item" /\ field = "options" -> "leaf"
         [] place = "matching_puzzle" /\ field = "sets" -> "leaf"
         [] place = "sortier_spiel" /\ field \in {"cards", "columns"} -> "leaf"
         [] place = "quick_quiz" /\ field \in {"questions", "answerLabels"} -> "leaf"
         [] place = "wer_bin_ich" /\ field \in {"legalForms", "questions"} -> "leaf"
         [] place = "what_and_why" /\ field = "cases" -> "case"
         [] place = "case" /\ field = "options" -> "option"
         [] place = "option" /\ field = "whys" -> "leaf"
         [] OTHER -> ""

Bijections(n) == {p \in [1..n -> 1..n] : \A i, j \in 1..n : p[i] = p[j] => i = j}

Count(x, seq) == Cardinality({i \in 1..Len(seq) : seq[i] = x})

SameBag(xs, ys) ==
    /\ Len(xs) = Len(ys)
    /\ \A i \in 1..Len(xs) : Count(xs[i], xs) = Count(xs[i], ys)

RECURSIVE Similar(_, _, _)
\* y is x with every shuffle target permuted and nothing else changed
Similar(x, y, place) ==
    IF place = "leaf" \/ x.t # "obj" THEN x = y
    ELSE /\ y.t = "obj"
         /\ y.k = x.k
         /\ Len(y.e) = Len(x.e)
         /\ \A i \in 1..Len(x.e) :
               LET c == TargetPlace(place, x, x.e[i].k)
               IN IF c # "" /\ x.e[i].t = "arr"
                  THEN /\ y.e[i].t = "arr"
                       /\ y.e[i].k = x.e[i].k
                       /\ Len(y.e[i].e) = Len(x.e[i].e)
                       /\ \E p \in Bijections(Len(x.e[i].e)) :
                             \A j \in 1..Len(x.e[i].e) :
                                Similar(x.e[i].e[j], y.e[i].e[p[j]], c)
                  ELSE y.e[i] = x.e[i]

RECURSIVE StaysIn(_, _, _)
\* every target array of y holds what the same array of x held: the same
\* bag of leaves, or elements with the same titles, each of which again
\* holds what the element of that title held in x
StaysIn(x, y, place) ==
    \A i \in 1..Len(x.e) :
        LET c == TargetPlace(place, x, x.e[i].k)
            xa == x.e[i]
            ya == FieldOf(y, x.e[i].k)
        IN (c # "" /\ xa.t = "arr") =>
              /\ ya.t = "arr"
              /\ Len(ya.e) = Len(xa.e)
              /\ IF c = "leaf" THEN SameBag(xa.e, ya.e)
                 ELSE /\ SameBag([j \in 1..Len(xa.e) |-> FieldOf(xa.e[j], "title")],
                                 [j \in 1..Len(ya.e) |-> FieldOf(ya.e[j], "title")])
                      /\ \A j \in 1..Len(ya.e) :
                            \E j2 \in 1..Len(xa.e) :
                               /\ FieldOf(xa.e[j2], "title") = FieldOf(ya.e[j], "title")
                               /\ xa.e[j2].t = ya.e[j].t
                               /\ StaysIn(xa.e[j2], ya.e[j], c)

SectionTypes(v) ==
    LET secs == FieldOf(v, "sections").e
    IN [j \in 1..Len(secs) |-> FieldOf(secs[j], "type")]

\* the member of the array arr whose title is the given one
Titled(arr, title) ==
    arr.e[CHOOSE j \in 1..Len(arr.e) : FieldOf(arr.e[j], "title") = S(title)]

-----------------------------------------------------------------------------
(* The navigation state.  A field holds a JavaScript value                 *)
(* [t, b, n, id, l]: t is "absent", "null", "bool", "num", "str" or        *)
(* "list"; a string is the id it spells (<<>> for the empty string), a     *)
(* list is a list of such strings.                                         *)

JV(t, b, n, id, l) == [t |-> t, b |-> b, n |-> n, id |-> id, l |-> l]

JAbsent == JV("absent", FALSE, 0, <<>>, <<>>)

JNull == JV("null", FALSE, 0, <<>>, <<>>)

JBool(b) == JV("bool", b, 0, <<>>, <<>>)

JNum(n) == JV("num", FALSE, n, <<>>, <<>>)

JStr(id) == JV("str", FALSE, 0, id, <<>>)

JList(l) == JV("list", FALSE, 0, <<>>, l)

JTruthy(v) ==
    CASE v.t = "bool" -> v.b
      [] v.t = "num" -> v.n # 0
      [] v.t = "str" -> v.id # <<>>
      [] v.t = "list" -> TRUE
      [] OTHER -> FALSE

DefaultWidth == 320

MinWidth == 200

NavState(sel, opened, open, width) ==
    [selectedId |-> sel, openedIds |-> opened, drawerOpen |-> open,
     drawerWidth |-> width]

\* let appState = { selectedId: null, openedIds: [], drawerOpen: false,
\*                  drawerWidth: 320 }
Defaults == NavState(JNull, JList(<<>>), JBool(FALSE), JNum(DefaultWidth))

NoFields == NavState(JAbsent, JAbsent, JAbsent, JAbsent)

NavFields == {"selectedId", "openedIds", "drawerOpen", "drawerWidth"}

(* What localStorage holds under STATE_KEY: t is "none" (no item),         *)
(* "empty" (the empty string), "garbage" (text JSON.parse rejects) or      *)
(* "json"; for "json", top is the kind of the value parsed ("obj", "null", *)
(* "other") and f the members of an object, JAbsent marking a member the   *)
(* text does not have.                                                     *)
Blob(t, top, f) == [t |-> t, top |-> top, f |-> f]

NoBlob == Blob("none", "", NoFields)

\* JSON.stringify(appState): a member whose value is undefined is left out
StringifyState(st) == Blob("json", "obj", st)

AssignFieldsWhole(st, f) == f

\* Object.assign(appState, JSON.parse(raw)) for an object: every member of
\* the parsed object overwrites the member of the same name
AssignFields(st, f) ==
    NavState(IF f.selectedId.t = "absent" THEN st.selectedId ELSE f.selectedId,
             IF f.openedIds.t = "absent" THEN st.openedIds ELSE f.openedIds,
             IF f.drawerOpen.t = "absent" THEN st.drawerOpen ELSE f.drawerOpen,
             IF f.drawerWidth.t = "absent" THEN st.drawerWidth ELSE f.drawerWidth)

\* loadAppState: the state after it ran on the blob; a getItem or a
\* JSON.parse that throws is caught, a falsy raw is skipped, and
\* Object.assign of null or of a primitive copies nothing
loadAppState(st, blob) ==
    IF blob.t = "json" /\ blob.top = "obj" THEN AssignFields(st, blob.f) ELSE st

\* saveAppState: the blob written
saveAppState(st) == StringifyState(st)

-----------------------------------------------------------------------------
(* The repository the page is served from: the index shipped with the page *)
(* (window.DATABASE_INDEX, written by scanDir with the data of every json  *)
(* file), the files a fetch can read, and the listings the remote tree     *)
(* request can answer with.                                                *)

KursId == <<DB, <<"kurs">>>>

QuizId == <<DB, <<"kurs">>, <<"quiz", "json">>>>

SkriptId == <<DB, <<"kurs">>, <<"skript", "pdf">>>>

SpielId == <<DB, <<"spiel", "json">>>>

NeuId == <<DB, <<"neu", "json">>>>

GoneId == <<DB, <<"gone", "json">>>>

\* a json file whose content is the text null
NullId == <<DB, <<"null", "json">>>>

QuizData == O([game_type |-> S("quick_quiz"), title |-> S("quiz"),
               questions |-> Strs(2)])

SpielData == O([gameType |-> S("matching_puzzle"), sets |-> Strs(2)])

NeuData == O([game_type |-> S("sortier_spiel"), cards |-> Strs(2)])

\* the json files of the repository and what they hold
FileIds == {QuizId, SpielId, NeuId, NullId}

FileData(id) ==
    CASE id = QuizId -> QuizData
      [] id = SpielId -> SpielData
      [] id = NeuId -> NeuData
      [] id = NullId -> NullV

DatabaseIndex ==
    <<Folder(KursId, <<File(QuizId, "json", QuizData),
                       File(SkriptId, "pdf", Absent)>>),
      File(SpielId, "json", SpielData)>>

Entry(path, type) == [path |-> path, type |-> type]

\* answers of the recursive tree request: a repository that lost two files
\* and gained one since the index was shipped, and a repository without a
\* database folder
FullListing ==
    <<Entry(<<<<"README", "md">>>>, "blob"),
      Entry(<<DB>>, "tree"),
      Entry(KursId, "tree"),
      Entry(QuizId, "blob"),
      Entry(NeuId, "blob")>>

BareListing == <<Entry(<<<<"README", "md">>>>, "blob")>>

\* an answer that lists an entry below a blob, as no git tree does: the
\* builder throws on it after it pushed the blob to the root list
BrokenListing ==
    <<Entry(<<DB>>, "tree"),
      Entry(NeuId, "blob"),
      Entry(NeuId \o <<<<"x", "json">>>>, "blob")>>

Listings == {FullListing, BareListing, BrokenListing}

\* the ids the page can come across: those of the repository and one that
\* no index holds
Ids == {KursId, QuizId, SkriptId, SpielId, NeuId, GoneId, NullId}

NoSession == [id \in Ids |-> Absent]

-----------------------------------------------------------------------------
(* What the page shows.  view is the markup renderViewForId or             *)
(* initLocalApp wrote to viewBodyEl, frames the iframes loadGame appended  *)
(* since.  A frame is [id, st, expected]: st is "loading" until            *)
(* GameBase.init ran, "fetching" while _loadPayload awaits its fetch,      *)
(* then "running" (onDataLoaded was called) or "fatal"; expected is the    *)
(* expectedGameType of the game, "" for none.                              *)

View(kind, id) == [kind |-> kind, id |-> id]

NoView == View("none", <<>>)

Frame(id) == [id |-> id, st |-> "loading", expected |-> ""]

\* the part of the page selectNode and renderViewForId work on
Pg(st, blob, v, fr, ses, pend) ==
    [appState |-> st, stored |-> blob, view |-> v, frames |-> fr,
     session |-> ses, pending |-> pend]

BufferAndLoadOnce(pg, node) ==
    [pg EXCEPT !.session = IF @[node.id].t = "absent"
                           THEN [@ EXCEPT ![node.id] = node.data] ELSE @,
               !.frames = Append(@, Frame(node.id))]

\* sessionStorage.setItem('game_payload_' + node.id, JSON.stringify(node.data))
\* and loadGame(node)
BufferAndLoad(pg, node) ==
    [pg EXCEPT !.session = [@ EXCEPT ![node.id] = node.data],
               !.frames = Append(@, Frame(node.id))]

renderViewNoBuffer(pg, tree, id) ==
    LET f == findNode(tree, id)
    IN IF f = <<>> THEN pg
       ELSE LET node == f[1]
            IN IF node.isFolder
               THEN [pg EXCEPT !.view = View("folder", node.id), !.frames = <<>>]
               ELSE IF node.kind = "json"
               THEN IF ~TruthyText(node.data)
                    THEN [pg EXCEPT !.view = View("loading", node.id),
                                    !.frames = <<>>,
                                    !.pending = Append(@, node.id)]
                    ELSE [pg EXCEPT !.view = View("empty", node.id),
                                    !.frames = <<Frame(node.id)>>]
               ELSE IF node.kind = "pdf"
               THEN [pg EXCEPT !.view = View("pdf", node.id), !.frames = <<>>]
               ELSE [pg EXCEPT !.view = View("doc", node.id), !.frames = <<>>]

\* renderViewForId(id) up to its first await
renderViewForId(pg, tree, id) ==
    LET f == findNode(tree, id)
    IN IF f = <<>> THEN pg
       ELSE LET node == f[1]
            IN IF node.isFolder
               THEN [pg EXCEPT !.view = View("folder", node.id), !.frames = <<>>]
               ELSE IF node.kind = "json"
               THEN IF ~TruthyText(node.data)
                    THEN [pg EXCEPT !.view = View("loading", node.id),
                                    !.frames = <<>>,
                                    !.pending = Append(@, node.id)]
                    ELSE BufferAndLoad([pg EXCEPT !.view = View("empty", node.id),
                                                  !.frames = <<>>], node)
               ELSE IF node.kind = "pdf"
               THEN [pg EXCEPT !.view = View("pdf", node.id), !.frames = <<>>]
               ELSE [pg EXCEPT !.view = View("doc", node.id), !.frames = <<>>]

selectNodeResolved(pg, tree, id) ==
    IF findNode(tree, id) = <<>> THEN pg
    ELSE LET st == [pg.appState EXCEPT !.selectedId = JStr(id)]
         IN renderViewForId([pg EXCEPT !.appState = st,
                                       !.stored = saveAppState(st)], tree, id)

\* selectNode(id)
selectNode(pg, tree, id) ==
    LET st == [pg.appState EXCEPT !.selectedId = JStr(id)]
    IN renderViewForId([pg EXCEPT !.appState = st, !.stored = saveAppState(st)],
                       tree, id)

ThisPage == Pg(appState, stored, view, frames, session, pending)

\* the page becomes pg
Becomes(pg) ==
    /\ appState' = pg.appState
    /\ stored' = pg.stored
    /\ view' = pg.view
    /\ frames' = pg.frames
    /\ session' = pg.session
    /\ pending' = pg.pending

-----------------------------------------------------------------------------
(* The application shell: init() at page load, then one action per event   *)
(* handler and per continuation of an awaited request.                     *)

\* appState.openedIds.includes(...) has a method to call
HasIncludes(v) == v.t \in {"list", "str"}

IndexOf(l, id) ==
    IF \E i \in 1..Len(l) : l[i] = id
    THEN CHOOSE i \in 1..Len(l) : l[i] = id /\ \A j \in 1..(i - 1) : l[j] # id
    ELSE 0

WithoutFrom(l, i) == SubSeq(l, 1, i - 1)

\* splice(idx, 1)
Without(l, i) == SubSeq(l, 1, i - 1) \o SubSeq(l, i + 1, Len(l))

toggleNodePushing(pg, id) ==
    LET st == [pg.appState EXCEPT !.openedIds =
                  JList(Append(pg.appState.openedIds.l, id))]
    IN [pg EXCEPT !.appState = st, !.stored = saveAppState(st)]

\* toggleNode(div, id, btn) on a list of opened ids
toggleNode(pg, id) ==
    LET l == pg.appState.openedIds.l
        idx == IndexOf(l, id)
        st == [pg.appState EXCEPT !.openedIds =
                  JList(IF idx >= 1 THEN Without(l, idx) ELSE Append(l, id))]
    IN [pg EXCEPT !.appState = st, !.stored = saveAppState(st)]

setDrawerNoSave(pg, isOpen) ==
    [pg EXCEPT !.appState.drawerOpen = JBool(isOpen)]

\* setDrawer(isOpen)
setDrawer(pg, isOpen) ==
    LET st == [pg.appState EXCEPT !.drawerOpen = JBool(isOpen)]
    IN [pg EXCEPT !.appState = st, !.stored = saveAppState(st)]

\* the tree initLocalApp starts from
IndexAtStart ==
    IF remoteIndex.t = "json" THEN remoteIndex.tree ELSE DatabaseIndex

InitialView == View("initial", <<>>)

RestorePurging(pg, tree) ==
    LET sel == pg.appState.selectedId
    IN IF JTruthy(sel) /\ sel.t = "str" /\ findNode(tree, sel.id) # <<>>
       THEN selectNode(pg, tree, findNode(tree, sel.id)[1].id)
       ELSE LET st == [pg.appState EXCEPT !.selectedId = JNull]
            IN [pg EXCEPT !.appState = st, !.stored = saveAppState(st)]

\* "Restore last selected" of initLocalApp
Restore(pg, tree) ==
    LET sel == pg.appState.selectedId
    IN IF JTruthy(sel) /\ sel.t = "str" /\ findNode(tree, sel.id) # <<>>
       THEN selectNode(pg, tree, findNode(tree, sel.id)[1].id)
       ELSE pg

\* window.location.reload(), or the page being left: what is in memory
\* goes, what is in localStorage and sessionStorage stays
Unload ==
    /\ page' = "unloaded"
    /\ appState' = Defaults
    /\ isResizing' = FALSE
    /\ rootTree' = <<>>
    /\ rendered' = FALSE
    /\ view' = NoView
    /\ frames' = <<>>
    /\ pending' = <<>>
    /\ clearPc' = "idle"

\* init(): loadAppState, initResizer, initLocalApp.  buildTreeHelper throws
\* on the first node when openedIds has no includes method; initLocalApp
\* then ends there, with the handlers of init registered and no tree
Boot ==
    /\ page = "unloaded"
    /\ LET st == loadAppState(Defaults, stored)
           tree == IndexAtStart
           threw == tree # <<>> /\ ~HasIncludes(st.openedIds)
       IN /\ rootTree' = tree
          /\ rendered' = ~threw
          /\ IF threw
             THEN Becomes(Pg(st, stored, NoView, <<>>, session, <<>>))
             ELSE Becomes(Restore(Pg(st, stored, InitialView, <<>>, session, <<>>),
                                  tree))
          /\ lastOp' = IF threw THEN "initThrew" ELSE "init"
    /\ page' = "ready"
    /\ isResizing' = FALSE
    /\ clearPc' = "idle"
    /\ UNCHANGED <<randVars, toolVars, remoteIndex, site, loads>>

MaxPending == 2

\* onNodeClick(e, node) on the row of a node of the rendered tree
NodeClick ==
    /\ page = "ready" /\ rendered
    /\ \E id \in NodeIds(rootTree) :
          LET node == findNode(rootTree, id)[1]
          IN IF node.isFolder
             THEN IF appState.openedIds.t = "list"
                  THEN Becomes(toggleNode(ThisPage, id)) /\ lastOp' = "toggle"
                  ELSE UNCHANGED <<appState, stored, view, frames, session, pending>>
                       /\ lastOp' = "toggleThrew"
             ELSE /\ Len(pending) < MaxPending
                  /\ Becomes(selectNode(ThisPage, rootTree, id))
                  /\ lastOp' = "select"
    /\ UNCHANGED <<randVars, toolVars, remoteIndex, site, page, isResizing, rootTree,
                   rendered, clearPc, loads>>

\* btn.onclick of a folder of the rendered tree
ToggleClick ==
    /\ page = "ready" /\ rendered
    /\ \E id \in NodeIds(rootTree) :
          /\ findNode(rootTree, id)[1].isFolder
          /\ IF appState.openedIds.t = "list"
             THEN Becomes(toggleNode(ThisPage, id)) /\ lastOp' = "toggle"
             ELSE UNCHANGED <<appState, stored, view, frames, session, pending>>
                  /\ lastOp' = "toggleThrew"
    /\ UNCHANGED <<randVars, toolVars, remoteIndex, site, page, isResizing, rootTree,
                   rendered, clearPc, loads>>

\* selectNode(id) called with any id, whether a node carries it or not
SelectCall(id) ==
    /\ page = "ready"
    /\ Len(pending) < MaxPending
    /\ Becomes(selectNode(ThisPage, rootTree, id))
    /\ lastOp' = "select"
    /\ UNCHANGED <<randVars, toolVars, remoteIndex, site, page, isResizing, rootTree,
                   rendered, clearPc, loads>>

\* toggleNode(div, id, btn) called with any id
ToggleCall(id) ==
    /\ page = "ready"
    /\ IF appState.openedIds.t = "list"
       THEN Becomes(toggleNode(ThisPage, id)) /\ lastOp' = "toggle"
       ELSE UNCHANGED <<appState, stored, view, frames, session, pending>>
            /\ lastOp' = "toggleThrew"
    /\ UNCHANGED <<randVars, toolVars, remoteIndex, site, page, isResizing, rootTree,
                   rendered, clearPc, loads>>

\* menuBtn.onclick = toggleDrawer
MenuClick ==
    /\ page = "ready"
    /\ Becomes(setDrawer(ThisPage, ~JTruthy(appState.drawerOpen)))
    /\ lastOp' = "setDrawer"
    /\ UNCHANGED <<randVars, toolVars, remoteIndex, site, page, isResizing, rootTree,
                   rendered, clearPc, loads>>

\* drawerBackdrop.onclick = () => setDrawer(false)
BackdropClick ==
    /\ page = "ready"
    /\ Becomes(setDrawer(ThisPage, FALSE))
    /\ lastOp' = "setDrawer"
    /\ UNCHANGED <<randVars, toolVars, remoteIndex, site, page, isResizing, rootTree,
                   rendered, clearPc, loads>>

\* the pointer positions and window widths the resizer is tried with
PointerXs == {-10, 100, 300, 900}

InnerWidths == {240, 1000}

ClampLow(x, w) == IF x < MinWidth THEN MinWidth ELSE x

\* the width mousemove computes for e.clientX = x and window.innerWidth = w
\* (w a multiple of 5, so that w * 0.8 is the integer (w * 4) \div 5)
Clamp(x, w) ==
    LET low == IF x < MinWidth THEN MinWidth ELSE x
    IN IF low > (w * 4) \div 5 THEN (w * 4) \div 5 ELSE low

\* mousedown on the resizer
MouseDown ==
    /\ page = "ready"
    /\ isResizing' = TRUE
    /\ lastOp' = "mousedown"
    /\ UNCHANGED <<randVars, toolVars, stored, remoteIndex, session, site, page, appState,
                   rootTree, rendered, view, frames, pending, clearPc, loads>>

\* mousemove on the window while resizing
\* (e.clientX = x, window.innerWidth = w)
MouseMove(x, w) ==
    /\ page = "ready"
    /\ isResizing
    /\ appState' = [appState EXCEPT !.drawerWidth = JNum(Clamp(x, w))]
    /\ lastOp' = "mousemove"
    /\ UNCHANGED <<randVars, toolVars, stored, remoteIndex, session, site, page,
                   isResizing, rootTree, rendered, view, frames, pending,
                   clearPc, loads>>

\* mouseup on the window while resizing
MouseUp ==
    /\ page = "ready"
    /\ isResizing
    /\ isResizing' = FALSE
    /\ stored' = saveAppState(appState)
    /\ lastOp' = "mouseup"
    /\ UNCHANGED <<randVars, toolVars, remoteIndex, session, site, page, appState,
                   rootTree, rendered, view, frames, pending, clearPc, loads>>

\* renderViewForId after its await, for the i-th pending call: the fetch
\* of node.id answered with the file (fetched) or failed
RenderFetched(i, fetched) ==
    LET id == pending[i]
        d == FileData(id)
        pg == [ThisPage EXCEPT !.pending = Without(pending, i)]
    IN IF fetched
       THEN /\ rootTree' = SetData(rootTree, 1, id, d).tree
            /\ Becomes(IF TruthyText(d)
                       THEN BufferAndLoad(pg, [id |-> id, data |-> d])
                       ELSE [pg EXCEPT !.frames = Append(@, Frame(id))])
       ELSE /\ rootTree' = rootTree
            /\ Becomes([pg EXCEPT !.view = View("error", id), !.frames = <<>>])

RenderFetchDone ==
    /\ page = "ready"
    /\ \E i \in 1..Len(pending), fetched \in BOOLEAN :
          /\ fetched => pending[i] \in FileIds
          /\ RenderFetched(i, fetched)
    /\ lastOp' = "render"
    /\ UNCHANGED <<randVars, toolVars, remoteIndex, site, page, isResizing, rendered,
                   clearPc, loads>>

\* the user reloads or reopens the page
UserReload ==
    /\ page = "ready"
    /\ Unload
    /\ lastOp' = "reload"
    /\ UNCHANGED <<randVars, toolVars, stored, remoteIndex, session, site, loads>>

NoIndex == [t |-> "none", tree |-> <<>>]

ClearKeepingState(blob) == blob

\* localStorage.removeItem(STATE_KEY): what the key holds afterwards
ClearState(blob) == NoBlob

\* clearDriveCache() up to its await, or to its reload; the user answers
\* the confirm with yes or no
ClearDriveCache ==
    /\ page = "ready"
    /\ clearPc = "idle"
    /\ \E yes \in BOOLEAN :
          IF ~yes
          THEN /\ lastOp' = "clearDeclined"
               /\ UNCHANGED <<stored, remoteIndex, session, page, appState,
                              isResizing, rootTree, rendered, view, frames,
                              pending, clearPc>>
          ELSE /\ stored' = ClearState(stored)
               /\ session' = NoSession
               /\ lastOp' = "clear"
               /\ IF site = "repo"
                  THEN /\ clearPc' = "listing"
                       /\ UNCHANGED <<remoteIndex, page, appState, isResizing,
                                      rootTree, rendered, view, frames, pending>>
                  ELSE /\ remoteIndex' = IF site = "local" THEN NoIndex
                                         ELSE remoteIndex
                       /\ Unload
    /\ UNCHANGED <<randVars, toolVars, site, loads>>

\* n.path.startsWith('database/') && n.path !== 'database'
InDatabase(list) ==
    SelectSeq(list, LAMBDA n : Len(n.path) >= 2 /\ n.path[1] = DB)

RebuildStoresRoot ==
    /\ page = "ready"
    /\ clearPc = "listing"
    /\ \/ /\ remoteIndex' = remoteIndex
          /\ lastOp' = "rebuildFailed"
       \/ \E list \in Listings :
             LET b == buildTreeFromFlatList(InDatabase(list))
             IN /\ remoteIndex' = [t |-> "json", tree |-> b.tree]
                /\ lastOp' = IF b.ok THEN "rebuilt" ELSE "rebuildThrew"
    /\ Unload
    /\ UNCHANGED <<randVars, toolVars, stored, session, site, loads>>

\* rebuildIndexFromGithub after its await: the request failed, answered
\* without a tree, or answered with a listing
RebuildFetched ==
    /\ page = "ready"
    /\ clearPc = "listing"
    /\ \/ /\ remoteIndex' = remoteIndex
          /\ lastOp' = "rebuildFailed"
       \/ \E list \in Listings :
             LET b == buildTreeFromFlatList(InDatabase(list))
             IN /\ remoteIndex' = IF b.ok THEN [t |-> "json", tree |-> b.tree]
                                  ELSE remoteIndex
                /\ lastOp' = IF b.ok THEN "rebuilt" ELSE "rebuildThrew"
    /\ Unload
    /\ UNCHANGED <<randVars, toolVars, stored, session, site, loads>>

-----------------------------------------------------------------------------
(* A game frame: GameBase.init and _loadPayload in the page the iframe     *)
(* loads.                                                                  *)

\* the fileId the game page is started with for the iframe loadGame made
\* for a node: the id of the node
FileIdOf(frame) == frame.id

\* no fileId: null or the empty string
NoId == <<>>

\* params.get('fileId') || params.get('id'), and the session entry
\* game_payload_id when both are missing
ResolveFileId(fileIdParam, idParam, sessionId) ==
    IF fileIdParam # NoId THEN fileIdParam
    ELSE IF idParam # NoId THEN idParam
    ELSE sessionId

\* a session entry that is no JSON text
Corrupt == Leaf("corrupt", "")

\* the payloads a session entry of another visit can hold
TypelessData == O([title |-> S("quiz"), questions |-> Strs(2)])

NumberTypeData == O([game_type |-> Num("7"), questions |-> Strs(2)])

BothTypesData ==
    O([game_type |-> S("quick_quiz"), gameType |-> S("matching_puzzle"),
       sets |-> Strs(2), questions |-> Strs(2)])

EmptyTypeData ==
    O([game_type |-> S(""), gameType |-> S("quick_quiz"), sets |-> Strs(2),
       questions |-> Strs(2)])

SessionEntries ==
    {Absent, Corrupt, NullV, QuizData, TypelessData, NumberTypeData, BothTypesData,
     EmptyTypeData, EscapeNullPayload}

\* what the parameter fileId, the parameter id and the session entry
\* game_payload_id can hold when a game page is opened
FileIdParams == {NoId, QuizId}

IdParams == {NoId, NullId}

SessionIds == {NoId, QuizId}

MaxFrames == 2

\* a game page is opened on its own: init resolves the fileId from the
\* URL parameters and the session
GameOpen ==
    /\ page = "ready"
    /\ Len(frames) < MaxFrames
    /\ \E fileIdParam \in FileIdParams, idParam \in IdParams, sessionId \in SessionIds :
          frames' = Append(frames, Frame(ResolveFileId(fileIdParam, idParam, sessionId)))
    /\ lastOp' = "gameOpen"
    /\ UNCHANGED <<randVars, toolVars, stored, remoteIndex, session, site, page,
                   appState, isResizing, rootTree, rendered, view, pending, clearPc,
                   loads>>

\* _randomizePayload on the JSON text of a value: the texts of the values
\* it can return, or ok = FALSE where it throws
RandomizeText(text) ==
    LET r == ParseV(<<>>, text)
    IN {[ok |-> o.ok,
         payload |-> IF o.ok THEN StringifyV(o.h, o.v) ELSE Absent] :
            o \in RandomizePayload(r.h, r.v)}

\* data.game_type || data.gameType on the payload text: the value itself
HeaderType(payload) ==
    IF TruthyText(FieldOf(payload, "game_type")) THEN FieldOf(payload, "game_type")
    ELSE FieldOf(payload, "gameType")

validateHeaderAnyType(payload, expected) ==
    /\ payload.t \in {"obj", "arr"}
    /\ TruthyText(HeaderType(payload))

\* _validateHeader on the payload
validateHeader(payload, expected) ==
    /\ payload.t \in {"obj", "arr"}
    /\ TruthyText(HeaderType(payload))
    /\ expected # "" => HeaderType(payload) = S(expected)

\* the game types a game page expects: none, or the one of its game
ExpectedTypes == {"", "quick_quiz"}

\* GameBase.init from the return of _loadPayload on, in the i-th frame
Deliver(fr, i, payload) ==
    /\ frames' = [fr EXCEPT ![i].st = IF validateHeader(payload, fr[i].expected)
                                      THEN "running" ELSE "fatal"]
    /\ loads' = Append(loads, [id |-> FileIdOf(fr[i]), payload |-> payload])

MaxLoads == 2

\* step 1 of _loadPayload on the session entry raw, an object or array
SessionHit(raw) == RandomizeText(raw)

\* GameBase.init up to the fetch of _loadPayload: without a fileId it ends
\* in _fatal; the session entry, if it parses to an object, is randomized
\* and returned; a throw in there is caught, and the fetch follows
GameInit ==
    /\ page = "ready"
    /\ Len(loads) < MaxLoads
    /\ \E i \in 1..Len(frames), exp \in ExpectedTypes :
          /\ frames[i].st = "loading"
          /\ LET raw == IF FileIdOf(frames[i]) = NoId THEN Absent
                        ELSE session[FileIdOf(frames[i])]
                 fr == [frames EXCEPT ![i].expected = exp]
             IN IF FileIdOf(frames[i]) = NoId
                THEN /\ frames' = [fr EXCEPT ![i].st = "fatal"]
                     /\ loads' = loads
                ELSE IF raw.t \in {"obj", "arr"}
                THEN \E o \in SessionHit(raw) :
                        IF o.ok
                        THEN Deliver(fr, i, o.payload)
                        ELSE /\ frames' = [fr EXCEPT ![i].st = "fetching"]
                             /\ loads' = loads
                ELSE /\ frames' = [fr EXCEPT ![i].st = "fetching"]
                     /\ loads' = loads
    /\ lastOp' = "gameInit"
    /\ UNCHANGED <<randVars, toolVars, stored, remoteIndex, session, site, page, appState,
                   isResizing, rootTree, rendered, view, pending, clearPc>>

\* _loadPayload after its fetch of '../' + fileId: the request fails and
\* init goes to _fatal, or it answers with the file, which is randomized,
\* written to the session entry and returned (a throw of _randomizePayload
\* goes to _fatal as well)
GameFetchDone ==
    /\ page = "ready"
    /\ Len(loads) < MaxLoads
    /\ \E i \in 1..Len(frames), fetched \in BOOLEAN :
          /\ frames[i].st = "fetching"
          /\ IF fetched /\ FileIdOf(frames[i]) \in FileIds
             THEN \E o \in RandomizeText(FileData(FileIdOf(frames[i]))) :
                     IF o.ok
                     THEN /\ session' = [session EXCEPT ![FileIdOf(frames[i])] = o.payload]
                          /\ Deliver(frames, i, o.payload)
                     ELSE /\ frames' = [frames EXCEPT ![i].st = "fatal"]
                          /\ UNCHANGED <<session, loads>>
             ELSE /\ frames' = [frames EXCEPT ![i].st = "fatal"]
                  /\ UNCHANGED <<session, loads>>
    /\ lastOp' = "gameFetch"
    /\ UNCHANGED <<randVars, toolVars, stored, remoteIndex, site, page, appState,
                   isResizing, rootTree, rendered, view, pending, clearPc>>

-----------------------------------------------------------------------------
(* scanDir of the index generator.  An entry of a directory is [name,      *)
(* isDir, entries, parses, text]: its name as the sequence of its parts    *)
(* between dots, the entries below it when it is a directory, and for a    *)
(* file whether JSON.parse accepts its content and the value it yields.    *)

Dir(name, entries) ==
    [name |-> name, isDir |-> TRUE, entries |-> entries, parses |-> FALSE,
     text |-> Absent]

Doc(name, parses, text) ==
    [name |-> name, isDir |-> FALSE, entries |-> <<>>, parses |-> parses,
     text |-> text]

\* the characters of the name parts that occur
Spell(part) ==
    CASE part = "" -> <<>>
      [] part = "Item 10" -> <<"I", "t", "e", "m", " ", "1", "0">>
      [] part = "Item 2" -> <<"I", "t", "e", "m", " ", "2">>
      [] part = "item 2" -> <<"i", "t", "e", "m", " ", "2">>
      [] part = "A" -> <<"A">>
      [] part = "a" -> <<"a">>
      [] part = "b" -> <<"b">>
      [] part = "c" -> <<"c">>
      [] part = "d" -> <<"d">>
      [] part = "git" -> <<"g", "i", "t">>
      [] part = "hidden" -> <<"h", "i", "d", "d", "e", "n">>
      [] part = "json" -> <<"j", "s", "o", "n">>
      [] part = "JSON" -> <<"J", "S", "O", "N">>
      [] part = "pdf" -> <<"p", "d", "f">>
      [] part = "PDF" -> <<"P", "D", "F">>
      [] part = "ppt" -> <<"p", "p", "t">>
      [] part = "txt" -> <<"t", "x", "t">>

\* the collation weight of a character: <<1, n>> for the space and the
\* dot, <<2, n>> for the digit n and <<3, n>> for the n-th letter in either
\* case; punctuation sorts before digits and digits before letters
Weight(c) ==
    LET Order == <<" ", ".", "0", "1", "2", "3", "4", "5", "6", "7", "8", "9",
                   "a", "A", "b", "B", "c", "C", "d", "D", "e", "E", "f", "F",
                   "g", "G", "h", "H", "i", "I", "j", "J", "k", "K", "l", "L",
                   "m", "M", "n", "N", "o", "O", "p", "P", "q", "Q", "r", "R",
                   "s", "S", "t", "T", "u", "U", "v", "V", "w", "W", "x", "X",
                   "y", "Y", "z", "Z">>
        p == CHOOSE i \in 1..Len(Order) : Order[i] = c
    IN IF p <= 2 THEN <<1, p>>
       ELSE IF p <= 12 THEN <<2, p - 3>>
       ELSE <<3, (p - 13) \div 2>>

RECURSIVE NameChars(_)
\* the characters of a name: those of its parts, joined by dots
NameChars(name) ==
    IF Len(name) = 1 THEN Spell(name[1])
    ELSE Spell(name[1]) \o <<".">> \o NameChars(Tail(name))

RECURSIVE CollationKey(_, _)
\* the collation key of the characters cs under {numeric: true}, appended
\* to key: one weight for each character, a run of digits taken together
\* as the number it writes
CollationKey(cs, key) ==
    IF cs = <<>> THEN key
    ELSE CollationKey(Tail(cs),
            IF key # <<>> /\ Weight(Head(cs))[1] = 2 /\ key[Len(key)][1] = 2
            THEN [key EXCEPT ![Len(key)][2] = @ * 10 + Weight(Head(cs))[2]]
            ELSE Append(key, Weight(Head(cs))))

RECURSIVE CompareKeys(_, _)
\* -1, 0 or 1 for two collation keys: the first weights that differ
\* decide, and a key sorts after each of its proper prefixes
CompareKeys(ka, kb) ==
    IF ka = <<>> THEN (IF kb = <<>> THEN 0 ELSE -1)
    ELSE IF kb = <<>> THEN 1
    ELSE IF Head(ka) = Head(kb) THEN CompareKeys(Tail(ka), Tail(kb))
    ELSE IF Head(ka)[1] < Head(kb)[1]
            \/ (Head(ka)[1] = Head(kb)[1] /\ Head(ka)[2] < Head(kb)[2])
    THEN -1
    ELSE 1

NoCompare(a, b) == 0

\* a.localeCompare(b, undefined, {numeric: true, sensitivity: 'base'})
localeCompare(a, b) ==
    CompareKeys(CollationKey(NameChars(a), <<>>),
                CollationKey(NameChars(b), <<>>))

RECURSIVE Insert(_, _)
\* x put before the first element of sorted that the comparator of
\* items.sort puts after it: a directory before a file, otherwise by name
Insert(sorted, x) ==
    IF sorted = <<>> THEN <<x>>
    ELSE IF \/ x.isDir /\ ~Head(sorted).isDir
            \/ /\ x.isDir = Head(sorted).isDir
               /\ localeCompare(x.name, Head(sorted).name) < 0
    THEN <<x>> \o sorted
    ELSE <<Head(sorted)>> \o Insert(Tail(sorted), x)

RECURSIVE SortItems(_)
\* items.sort(...), a stable sort
SortItems(items) ==
    IF items = <<>> THEN <<>>
    ELSE Insert(SortItems(SubSeq(items, 1, Len(items) - 1)),
                items[Len(items)])

extnameLastPart(name) == name[Len(name)]

\* path.extname(name) without its dot: "" for a name without a dot and for
\* a name whose only dot is its first character
extname(name) ==
    IF Len(name) = 1 \/ (Len(name) = 2 /\ name[1] = "") THEN ""
    ELSE name[Len(name)]

RECURSIVE scanDir(_, _)
RECURSIVE ScanFrom(_, _)

ScanItemSkipsUnread(id, item) ==
    IF item.name[1] = "" THEN <<>>
    ELSE IF item.isDir
    THEN IF Len(scanDir(Append(id, item.name), item.entries)) > 0
         THEN <<Folder(Append(id, item.name),
                       scanDir(Append(id, item.name), item.entries))>>
         ELSE <<>>
    ELSE IF ToLower(extname(item.name)) = "json"
    THEN IF item.parses
         THEN <<File(Append(id, item.name), "json", item.text)>>
         ELSE <<>>
    ELSE IF ToLower(extname(item.name)) = "pdf"
    THEN <<File(Append(id, item.name), "pdf", Absent)>>
    ELSE IF ToLower(extname(item.name)) \in {"pptx", "ppt"}
    THEN <<File(Append(id, item.name), "pptx", Absent)>>
    ELSE <<>>

\* the body of the loop over the sorted items: the nodes it pushes
ScanItem(id, item) ==
    IF item.name[1] = "" THEN <<>>
    ELSE IF item.isDir
    THEN IF Len(scanDir(Append(id, item.name), item.entries)) > 0
         THEN <<Folder(Append(id, item.name),
                       scanDir(Append(id, item.name), item.entries))>>
         ELSE <<>>
    ELSE IF ToLower(extname(item.name)) = "json"
    THEN <<File(Append(id, item.name), "json",
                IF item.parses THEN item.text ELSE Absent)>>
    ELSE IF ToLower(extname(item.name)) = "pdf"
    THEN <<File(Append(id, item.name), "pdf", Absent)>>
    ELSE IF ToLower(extname(item.name)) \in {"pptx", "ppt"}
    THEN <<File(Append(id, item.name), "pptx", Absent)>>
    ELSE <<>>

ScanFrom(id, sorted) ==
    IF sorted = <<>> THEN <<>>
    ELSE ScanItem(id, Head(sorted)) \o ScanFrom(id, Tail(sorted))

\* scanDir(dirPath) for the directory with relative path id and entries
\* items, in the order readdirSync lists them
scanDir(id, items) == ScanFrom(id, SortItems(items))

\* the entries a database folder is made of: folders with and without
\* recognized files below them, files with recognized extensions in
\* either case, with other extensions and with none, and hidden entries
DiskPool ==
    {Dir(<<"Item 10">>, <<Doc(<<"a", "pdf">>, FALSE, Absent)>>),
     Dir(<<"item 2">>,
         <<Doc(<<"b", "JSON">>, TRUE, SpielData),
           Doc(<<"Item 10", "pdf">>, FALSE, Absent),
           Dir(<<"d">>, <<>>),
           Doc(<<"Item 2", "json">>, FALSE, Absent)>>),
     Dir(<<"d">>,
         <<Doc(<<"c", "txt">>, FALSE, Absent),
           Dir(<<"", "git">>, <<Doc(<<"a", "pdf">>, FALSE, Absent)>>)>>),
     Doc(<<"Item 10", "pdf">>, FALSE, Absent),
     Doc(<<"Item 2", "json">>, TRUE, QuizData),
     Doc(<<"A", "PDF">>, FALSE, Absent),
     Doc(<<"a", "pdf">>, FALSE, Absent),
     Doc(<<"c", "txt">>, FALSE, Absent),
     Doc(<<"d", "ppt">>, FALSE, Absent),
     Doc(<<"json">>, TRUE, QuizData),
     Doc(<<"", "hidden", "json">>, TRUE, QuizData),
     Doc(<<"b", "JSON">>, FALSE, Absent)}

\* the entries a recursive tree listing under database/ is made of: the
\* database folder itself, a folder, files below it with a recognized, an
\* unrecognized and no extension, top-level files, and a path below a file
FlatPool ==
    {Entry(<<DB>>, "tree"),
     Entry(<<DB, <<"docs">>>>, "tree"),
     Entry(<<DB, <<"docs">>, <<"notes", "txt">>>>, "blob"),
     Entry(<<DB, <<"docs">>, <<"a", "pdf">>>>, "blob"),
     Entry(<<DB, <<"docs">>, <<"", "gitkeep">>>>, "blob"),
     Entry(<<DB, <<"b", "JSON">>>>, "blob"),
     Entry(<<DB, <<"json">>>>, "blob"),
     Entry(<<DB, <<"docs">>, <<"a", "pdf">>, <<"x", "json">>>>, "blob")}

MaxEntries == 3

\* const tree = buildTreeFromFlatList(rawNodes)
BuildRun ==
    /\ ~built.done
    /\ built' = [done |-> TRUE, ok |-> buildTreeFromFlatList(listing).ok,
                 tree |-> buildTreeFromFlatList(listing).tree]
    /\ UNCHANGED <<randVars, appVars, disk, scanned, listing>>

\* const tree = scanDir(DATABASE_ROOT)
ScanRun ==
    /\ ~scanned.done
    /\ scanned' = [done |-> TRUE, ok |-> TRUE, tree |-> scanDir(<<DB>>, disk)]
    /\ UNCHANGED <<randVars, appVars, disk, listing, built>>

-----------------------------------------------------------------------------
(* The specifications.                                                     *)

\* neither index builder has run
NotRun == [done |-> FALSE, ok |-> TRUE, tree |-> <<>>]

ToolIdle ==
    /\ disk = <<>>
    /\ scanned = NotRun
    /\ listing = <<>>
    /\ built = NotRun

RandIdle ==
    /\ heap = <<>>
    /\ data = Undefined
    /\ orig = Absent
    /\ result = Undefined
    /\ ok = TRUE
    /\ phase = "off"
    /\ drawn = <<>>

AppIdle ==
    /\ stored = NoBlob
    /\ remoteIndex = NoIndex
    /\ session = NoSession
    /\ site = "local"
    /\ page = "unloaded"
    /\ appState = Defaults
    /\ isResizing = FALSE
    /\ rootTree = <<>>
    /\ rendered = FALSE
    /\ view = NoView
    /\ frames = <<>>
    /\ pending = <<>>
    /\ clearPc = "idle"
    /\ loads = <<>>
    /\ lastOp = ""

ObjBlob(sel, opened, open, width) ==
    Blob("json", "obj", NavState(sel, opened, open, width))

\* what the state key can hold when the page is opened: nothing, text
\* that is no JSON, JSON that is no object, and objects with members
\* missing, stale or of a wrong type
Blobs ==
    {NoBlob,
     Blob("empty", "", NoFields),
     Blob("garbage", "", NoFields),
     Blob("json", "null", NoFields),
     Blob("json", "other", NoFields),
     ObjBlob(JAbsent, JAbsent, JAbsent, JAbsent),
     ObjBlob(JAbsent, JAbsent, JBool(TRUE), JAbsent),
     ObjBlob(JStr(QuizId), JList(<<KursId>>), JBool(TRUE), JNum(400)),
     ObjBlob(JStr(KursId), JAbsent, JAbsent, JAbsent),
     ObjBlob(JStr(GoneId), JList(<<GoneId>>), JAbsent, JAbsent),
     ObjBlob(JNum(7), JAbsent, JAbsent, JStr(<<<<"wide">>>>)),
     ObjBlob(JStr(GoneId), JNum(5), JBool(TRUE), JAbsent),
     ObjBlob(JAbsent, JNull, JAbsent, JAbsent),
     ObjBlob(JAbsent, JStr(KursId), JAbsent, JAbsent)}

\* everything of the page but what storage holds and where it is served
Closed ==
    /\ RandIdle
    /\ ToolIdle
    /\ page = "unloaded"
    /\ appState = Defaults
    /\ isResizing = FALSE
    /\ rootTree = <<>>
    /\ rendered = FALSE
    /\ view = NoView
    /\ frames = <<>>
    /\ pending = <<>>
    /\ clearPc = "idle"
    /\ loads = <<>>
    /\ lastOp = ""

\* the page is opened from a local copy: the state key as an earlier visit
\* or another program left it
InitNav ==
    /\ Closed
    /\ stored \in Blobs
    /\ site = "local"
    /\ remoteIndex = NoIndex
    /\ session = NoSession

NextNav ==
    \/ Boot
    \/ NodeClick
    \/ ToggleClick
    \/ MenuClick
    \/ BackdropClick
    \/ MouseDown
    \/ \E x \in PointerXs, w \in InnerWidths : MouseMove(x, w)
    \/ MouseUp
    \/ ClearDriveCache
    \/ UserReload

SpecNav == InitNav /\ [][NextNav]_vars

\* the page is opened on GitHub Pages, below a repository or at the root
\* of the host, with the state an earlier visit left
InitIndex ==
    /\ Closed
    /\ stored = ObjBlob(JStr(SkriptId), JList(<<KursId>>), JBool(FALSE),
                        JNum(DefaultWidth))
    /\ site \in {"repo", "root"}
    /\ remoteIndex = NoIndex
    /\ session = NoSession

NextIndex ==
    \/ Boot
    \/ NodeClick
    \/ ToggleClick
    \/ MenuClick
    \/ RenderFetchDone
    \/ ClearDriveCache
    \/ RebuildFetched
    \/ UserReload

SpecIndex == InitIndex /\ [][NextIndex]_vars

\* an index whose ids are not unique, as another program may have left
\* it under the key of the remote index
TwinTree ==
    <<Folder(KursId, <<File(QuizId, "json", QuizData),
                       Folder(KursId, <<File(SkriptId, "pdf", Absent)>>)>>),
      File(QuizId, "pdf", Absent),
      File(SkriptId, "pptx", Absent)>>

\* the operations of the navigation state and the lookups, called with
\* any id on the shipped index and on TwinTree
InitOps ==
    /\ Closed
    /\ stored \in {NoBlob,
                   ObjBlob(JStr(GoneId), JList(<<GoneId, KursId>>), JBool(FALSE),
                           JNum(DefaultWidth))}
    /\ site = "local"
    /\ remoteIndex \in {NoIndex, [t |-> "json", tree |-> TwinTree]}
    /\ session = NoSession

\* toggleNode is called with the id of a folder, of a file and of no node
SpecOps ==
    InitOps /\ [][\/ Boot
                  \/ \E id \in Ids : SelectCall(id)
                  \/ \E id \in {KursId, QuizId, GoneId} : ToggleCall(id)
                  \/ UserReload]_vars

\* the index builders on their own, before they run: a database folder of
\* up to MaxEntries entries of DiskPool with different names, in every
\* order readdirSync may list them, or a listing of up to MaxEntries
\* entries of FlatPool in every order, with repetitions
InitTools ==
    /\ RandIdle
    /\ AppIdle
    /\ \/ /\ disk \in {s \in UNION {[1..n -> DiskPool] : n \in 0..MaxEntries} :
                        \A i, j \in 1..Len(s) : s[i].name = s[j].name => i = j}
          /\ listing = <<>>
       \/ /\ disk = <<>>
          /\ listing \in UNION {[1..n -> FlatPool] : n \in 0..MaxEntries}
    /\ scanned = NotRun
    /\ built = NotRun

SpecTools == InitTools /\ [][ScanRun \/ BuildRun]_vars

-----------------------------------------------------------------------------
(* Both builders on the same content: the database folder on disk and the  *)
(* recursive tree listing of the same folder in the repository.            *)

\* entries of a database folder in which every file has a recognized
\* extension, no name is hidden and no directory is empty
CleanPool ==
    {Dir(<<"Item 10">>, <<Doc(<<"a", "pdf">>, FALSE, Absent)>>),
     Dir(<<"d">>,
         <<Doc(<<"b", "JSON">>, TRUE, SpielData),
           Dir(<<"item 2">>, <<Doc(<<"d", "ppt">>, FALSE, Absent)>>)>>),
     Doc(<<"Item 10", "pdf">>, FALSE, Absent),
     Doc(<<"Item 2", "json">>, TRUE, QuizData),
     Doc(<<"A", "PDF">>, FALSE, Absent),
     Doc(<<"d", "ppt">>, FALSE, Absent),
     Doc(<<"b", "JSON">>, FALSE, Absent)}

RECURSIVE Flatten(_, _)
\* the entries of the recursive tree listing for the directory with path
\* id and entries items: a tree entry for a directory, followed by what
\* lies below it, and a blob entry for a file
Flatten(id, items) ==
    IF items = <<>> THEN <<>>
    ELSE <<Entry(Append(id, Head(items).name),
                 IF Head(items).isDir THEN "tree" ELSE "blob")>>
            \o Flatten(Append(id, Head(items).name), Head(items).entries)
            \o Flatten(id, Tail(items))

Reverse(s) == [i \in 1..Len(s) |-> s[Len(s) + 1 - i]]

\* up to MaxEntries entries of CleanPool with different names, and their
\* listing from the top down or from the bottom up
InitAgree ==
    /\ RandIdle
    /\ AppIdle
    /\ disk \in {s \in UNION {[1..n -> CleanPool] : n \in 0..MaxEntries} :
                   \A i, j \in 1..Len(s) : s[i].name = s[j].name => i = j}
    /\ listing \in {Flatten(<<DB>>, disk), Reverse(Flatten(<<DB>>, disk))}
    /\ scanned = NotRun
    /\ built = NotRun

SpecAgree == InitAgree /\ [][ScanRun \/ BuildRun]_vars

\* the page on GitHub Pages with the shipped index, whose json nodes carry
\* their data, or with a remote index built from a listing, whose nodes
\* carry none: a game file, a file that holds null, a file that is gone
\* and a pdf
InitFetch ==
    /\ Closed
    /\ stored = NoBlob
    /\ site = "repo"
    /\ remoteIndex \in
          {NoIndex,
           [t |-> "json",
            tree |-> buildTreeFromFlatList(<<Entry(NeuId, "blob"),
                                             Entry(NullId, "blob"),
                                             Entry(GoneId, "blob"),
                                             Entry(SkriptId, "blob")>>).tree]}
    /\ session = NoSession

SpecFetch ==
    InitFetch /\ [][Boot \/ NodeClick \/ RenderFetchDone \/ UserReload]_vars

\* the page is opened for the first time, with the shipped index
InitGame ==
    /\ Closed
    /\ stored = NoBlob
    /\ site = "repo"
    /\ remoteIndex = NoIndex
    /\ session = NoSession

NextGame ==
    \/ Boot
    \/ NodeClick
    \/ GameInit
    \/ GameFetchDone
    \/ ClearDriveCache

SpecGame == InitGame /\ [][NextGame]_vars

\* the session entries as earlier visits left them
SessionsAtOpen ==
    {[id \in Ids |-> IF id = QuizId THEN q ELSE Absent] : q \in SessionEntries}

\* game pages opened on their own, beside the shell
InitLoad ==
    /\ Closed
    /\ stored = NoBlob
    /\ site = "repo"
    /\ remoteIndex = NoIndex
    /\ session \in SessionsAtOpen

SpecLoad == InitLoad /\ [][Boot \/ GameOpen \/ GameInit \/ GameFetchDone]_vars

\* one session from its start: the shell with the shipped index, its game
\* frames, and game pages of the session started again for a fileId
SpecSession ==
    InitGame /\ [][Boot \/ SelectCall(QuizId) \/ SelectCall(SpielId) \/ GameOpen
                     \/ GameInit \/ GameFetchDone]_vars

-----------------------------------------------------------------------------
(* The randomization on its own: a payload is parsed, _randomizePayload    *)
(* runs on it, and the caller then writes to what it was handed.           *)

InitRand ==
    \E p \in Payloads :
        LET r == ParseV(<<>>, p)
        IN /\ heap = r.h
           /\ data = r.v
           /\ orig = p
           /\ result = Undefined
           /\ ok = TRUE
           /\ phase = "input"
           /\ drawn = <<>>
           /\ AppIdle
           /\ ToolIdle

\* this._randomizePayload(data)
Randomize ==
    /\ phase = "input"
    /\ \E o \in RandomizePayload(heap, data) :
          /\ heap' = o.h
          /\ result' = o.v
          /\ ok' = o.ok
    /\ phase' = "done"
    /\ UNCHANGED <<data, orig, drawn, appVars, toolVars>>

\* the game writes to the payload it was handed: a new title on one of its
\* objects, or a new element at the end of one of its arrays
MutateResult ==
    /\ phase = "done"
    /\ ok
    /\ \E a \in Reach(heap, result) :
          heap' = IF heap[a].t = "obj"
                  THEN SetField(heap, Ref(a), "title", Prim("str", "changed"))
                  ELSE [heap EXCEPT ![a].e = Append(@, Prim("str", "changed"))]
    /\ phase' = "mutated"
    /\ UNCHANGED <<data, orig, result, ok, drawn, appVars, toolVars>>

NextRand == Randomize \/ MutateResult

SpecRand == InitRand /\ [][NextRand]_vars

-----------------------------------------------------------------------------
(* shuffle on its own, on arrays of different elements.                    *)

MaxDistinct == 5

DistinctLetters == <<"a", "b", "c", "d", "e", "f", "g", "h">>

\* the arrays of up to MaxDistinct different strings
DistinctArrays == {A([k \in 1..n |-> S(DistinctLetters[k])]) : n \in 0..MaxDistinct}

InitShuffle ==
    \E p \in DistinctArrays :
        /\ heap = ParseV(<<>>, p).h
        /\ data = ParseV(<<>>, p).v
        /\ orig = p
        /\ result = Undefined
        /\ ok = TRUE
        /\ phase = "input"
        /\ drawn = <<>>
        /\ AppIdle
        /\ ToolIdle

\* shuffle(data): the random source gives the indices js
ShuffleRun ==
    /\ phase = "input"
    /\ \E js \in ChoiceSeqs(Len(Elems(heap, data))) :
          /\ heap' = ShuffleWith(heap, data, js).h
          /\ result' = ShuffleWith(heap, data, js).v
          /\ drawn' = [i \in 1..(Len(Elems(heap, data)) - 1) |->
                          js[Len(Elems(heap, data)) + 1 - i]]
    /\ ok' = TRUE
    /\ phase' = "done"
    /\ UNCHANGED <<data, orig, appVars, toolVars>>

SpecShuffle == InitShuffle /\ [][ShuffleRun]_vars

Returned == phase = "done" /\ ok

ResultText == StringifyV(heap, result)

-----------------------------------------------------------------------------
\* what a reload would restore from the state key
Restored == loadAppState(Defaults, stored)

-----------------------------------------------------------------------------
\* C2: for every object payload, _randomizePayload leaves the input as it
\* was (every member, every array order) and returns a result that shares
\* no array or object with it, so that a later write to the result (the
\* MutateResult step) does not show in the input.
C2_InputUntouched ==
    (phase \in {"done", "mutated"} /\ data.t = "ref") =>
        /\ StringifyV(heap, data) = orig
        /\ ok => Reach(heap, data) \cap Reach(heap, result) = {}

\* a shuffled escape_game result was written to and the input still reads
\* as the text it was parsed from
C2_Witness ==
    /\ phase = "mutated"
    /\ orig = EscapePayload
    /\ FieldOf(ResultText, "title") = S("changed")
    /\ SectionTypes(ResultText) = <<S("sort"), S("capital"), S("quiz")>>
    /\ StringifyV(heap, data) = EscapePayload

\* C3: every array _randomizePayload shuffles holds in the result the same
\* elements as in the input, each as often (the elements themselves up to
\* the order of their own shuffle targets), and every member that is no
\* shuffle target of the content type is as in the input.
C3_ValuePreserving ==
    (Returned /\ data.t = "ref") => Similar(orig, ResultText, TextType(orig))

\* a sortier_spiel payload with three cards, one value twice, was returned
\* with both targets in another order
C3_Witness ==
    /\ Returned
    /\ orig = O([game_type |-> S("sortier_spiel"), cards |-> Strs(3),
                 columns |-> Strs(2)])
    /\ FieldOf(ResultText, "cards").e = <<S("a"), S("a"), S("b")>>
    /\ FieldOf(ResultText, "columns").e = <<S("b"), S("a")>>

\* C4: nested shuffling moves no element to another container: an
\* escape_game result has as many sections as the input, of the same
\* types, every section holds the questions (rows) of the section of that
\* title in the input, and every question (row) the options of the
\* question of that title; likewise the cases, their options and the whys
\* of each option of a what_and_why payload.
C4_NoCrossContainerMove ==
    (Returned /\ TextType(orig) \in {"escape_game", "what_and_why"}) =>
        /\ StaysIn(orig, ResultText, TextType(orig))
        /\ FieldOf(orig, "sections").t = "arr" =>
              SameBag(SectionTypes(orig), SectionTypes(ResultText))

\* the sections, the questions of the quiz section and the options of its
\* first question all came out in another order
C4_Witness ==
    /\ Returned
    /\ orig = EscapePayload
    /\ SectionTypes(ResultText) = <<S("capital"), S("sort"), S("quiz")>>
    /\ LET qs == FieldOf(Titled(FieldOf(ResultText, "sections"), "s1"), "questions")
       IN /\ FieldOf(qs.e[1], "title") = S("q2")
          /\ FieldOf(qs.e[2], "options").e = <<S("b"), S("a")>>

\* C5: a payload whose discriminator is missing or names no content type
\* of the table is returned as a copy that equals the input in every member
\* and every array order, and no error is raised.
C5_UnknownTypeCopied ==
    (phase = "done" /\ data.t = "ref" /\ TextType(orig) \notin KnownTypes) =>
        /\ ok
        /\ ResultText = orig
        /\ result # data

\* a payload without discriminator that carries arrays named like targets
C5_Witness ==
    /\ Returned
    /\ data.t = "ref"
    /\ TextType(orig) = ""
    /\ Len(FieldOf(orig, "sections").e) = 3
    /\ FieldOf(orig, "cases").t = "arr"

-----------------------------------------------------------------------------
\* C6: (as amended) after every select, toggle and drawer open or close,
\* and after the mouseup that ends a resize drag, the state persisted under
\* the state key equals the in-memory navigation state, so that a reload
\* restores exactly that state; the width a mousemove of the drag sets is
\* in memory only until the mouseup.
C6_PersistedAfterTransition ==
    lastOp \in {"select", "toggle", "setDrawer", "mouseup"} => Restored = appState

C6_Witness ==
    /\ lastOp = "mouseup"
    /\ appState.drawerWidth = JNum(800)
    /\ appState.selectedId = JStr(QuizId)
    /\ Restored = appState

\* C6 as stated: after every navigation transition, the width set while
\* dragging included, what is persisted equals what is in memory.
C6_WriteThrough ==
    lastOp \in {"select", "toggle", "setDrawer", "mousemove", "mouseup"} =>
        Restored = appState

-----------------------------------------------------------------------------
\* C7: init() loads the navigation state without throwing: with the state
\* key missing, empty or holding text that is no JSON, every field is at
\* its default afterwards (selectedId null, openedIds [], drawerOpen false,
\* drawerWidth 320) and startup completes, and a field the parsed blob
\* lacks keeps its default.
C7_LoadKeepsDefaults ==
    [][Boot =>
          /\ stored.t # "json" => (appState' = Defaults /\ lastOp' = "init")
          /\ \A k \in NavFields :
                stored.f[k].t = "absent" => appState'[k] = Defaults[k]]_vars

C7_Witness ==
    /\ lastOp = "init"
    /\ stored = ObjBlob(JAbsent, JAbsent, JBool(TRUE), JAbsent)
    /\ appState = NavState(JNull, JList(<<>>), JBool(TRUE), JNum(DefaultWidth))

-----------------------------------------------------------------------------
\* the values a field of the navigation state is meant to hold
ValidField(k, v) ==
    CASE k = "selectedId" -> v.t \in {"str", "null"}
      [] k = "openedIds" -> v.t = "list"
      [] k = "drawerOpen" -> v.t = "bool"
      [] k = "drawerWidth" -> v.t = "num"

\* C8: on load every persisted field is validated on its own: a field of
\* the stored object whose value is invalid for it (openedIds that is no
\* list, drawerWidth that is no number) is at its default afterwards, the
\* valid fields have their stored values, and startup completes without
\* error.
C8_FieldsValidatedOnLoad ==
    [][(Boot /\ stored.t = "json" /\ stored.top = "obj") =>
          /\ \A k \in NavFields :
                appState'[k] = IF stored.f[k].t # "absent" /\ ValidField(k, stored.f[k])
                               THEN stored.f[k] ELSE Defaults[k]
          /\ lastOp' = "init"]_vars

-----------------------------------------------------------------------------
\* the ids of a list of ids that no node of the tree carries
Unresolved(tree, l) == {i \in 1..Len(l) : findNode(tree, l[i]) = <<>>}

\* C9: for every tree the page holds and every id no node of it carries,
\* findNode and findPath return null; and a startup whose stored
\* selectedId does not resolve in the tree shows the initial view and
\* leaves selectedId and openedIds as they were stored, as a startup whose
\* stored openedIds hold ids that do not resolve leaves openedIds (the
\* stored openedIds being a list where there are any).
C9_MissIsSoft ==
    [][/\ \A id \in Ids \ NodeIds(rootTree') :
             findNode(rootTree', id) = <<>> /\ findPath(rootTree', id) = <<>>
       /\ (Boot /\ stored.t = "json" /\ stored.top = "obj"
                 /\ stored.f.openedIds.t \in {"absent", "list"}) =>
             /\ (stored.f.selectedId.t = "str"
                  /\ findNode(rootTree', stored.f.selectedId.id) = <<>>) =>
                    /\ lastOp' = "init"
                    /\ view' = InitialView
                    /\ frames' = <<>>
                    /\ appState'.selectedId = stored.f.selectedId
                    /\ stored' = stored
             /\ (stored.f.openedIds.t = "list"
                  /\ Unresolved(rootTree', stored.f.openedIds.l) # {}) =>
                    /\ lastOp' = "init"
                    /\ appState'.openedIds = stored.f.openedIds
                    /\ Restored'.openedIds = stored.f.openedIds]_vars

C9_Witness ==
    /\ lastOp = "init"
    /\ remoteIndex.t = "json"
    /\ rootTree # <<>>
    /\ appState.selectedId = JStr(SkriptId)
    /\ appState.openedIds = JList(<<KursId>>)
    /\ findNode(rootTree, SkriptId) = <<>>
    /\ view = InitialView

-----------------------------------------------------------------------------
\* C10: (as amended) rebuildIndexFromGithub does not write the navigation
\* state, but clearDriveCache removes the persisted state before it runs
\* the rebuild: when the rebuild reloads the page the state key is empty,
\* so that selectedId and openedIds start at their defaults (null, []),
\* unless a select, toggle or drawer transition during the awaited listing
\* persisted the state again, and then the key holds the selectedId and
\* openedIds of the page at that moment.
C10_ReindexAfterClear ==
    [][/\ (ClearDriveCache /\ lastOp' = "clear") => stored' = NoBlob
       /\ RebuildFetched =>
             /\ stored' = stored
             /\ \/ stored = NoBlob
                \/ /\ Restored.selectedId = appState.selectedId
                   /\ Restored.openedIds = appState.openedIds]_vars

C10_Witness ==
    /\ lastOp = "init"
    /\ remoteIndex.t = "json"
    /\ stored = NoBlob
    /\ appState.selectedId = JNull
    /\ appState.openedIds = JList(<<>>)

\* C10 as stated: after clearDriveCache ran the rebuild and reloaded the
\* page, selectedId and openedIds are restored with the values they had
\* before.
C10_ReindexKeepsSelection ==
    [][(RebuildFetched /\ lastOp' = "rebuilt") =>
          /\ Restored'.selectedId = appState.selectedId
          /\ Restored'.openedIds = appState.openedIds]_vars

-----------------------------------------------------------------------------
\* C11: selectNode(id) succeeds for every id: afterwards selectedId is id
\* and the state key holds it, whether or not a node of the tree carries
\* id; when none does, the view, the frames, the session entries and the
\* pending fetches are as before.
C11_SelectAlwaysSucceeds ==
    [][\A id \in Ids :
          SelectCall(id) =>
             /\ appState'.selectedId = JStr(id)
             /\ Restored'.selectedId = JStr(id)
             /\ Restored' = appState'
             /\ findNode(rootTree, id) = <<>> =>
                   UNCHANGED <<view, frames, session, pending>>]_vars

C11_Witness ==
    /\ lastOp = "select"
    /\ rootTree # <<>>
    /\ findNode(rootTree, GoneId) = <<>>
    /\ appState.selectedId = JStr(GoneId)
    /\ Restored.selectedId = JStr(GoneId)
    /\ stored.f.openedIds = JList(<<>>)

\* C12: toggleNode(id) flips the membership of id in openedIds and of no
\* other id, for ids of folders, of files and of no node alike, and a
\* second toggleNode(id) gives back the set of opened ids it started from.
C12_ToggleFlipsOne ==
    [][\A id \in Ids :
          ToggleCall(id) /\ lastOp' = "toggle" =>
             LET before == {appState.openedIds.l[i] :
                               i \in 1..Len(appState.openedIds.l)}
                 after == {appState'.openedIds.l[i] :
                              i \in 1..Len(appState'.openedIds.l)}
                 again == toggleNode(ThisPage', id).appState.openedIds.l
             IN /\ id \in after <=> id \notin before
                /\ \A other \in Ids \ {id} :
                      other \in after <=> other \in before
                /\ {again[i] : i \in 1..Len(again)} = before]_vars

C12_Witness ==
    /\ lastOp = "toggle"
    /\ appState.openedIds = JList(<<KursId>>)
    /\ Restored.openedIds = JList(<<KursId>>)
    /\ appState.selectedId = JStr(GoneId)
    /\ findNode(rootTree, GoneId) = <<>>

\* C13: the width a mousemove of a resize stores is at most 0.8 times the
\* viewport width; it is at least 200 whenever 0.8 times the viewport
\* width is, it is the pointer position when that lies in the range, and
\* it is 0.8 times the viewport width when that is below 200.
C13_WidthClamped ==
    [][\A x \in PointerXs, w \in InnerWidths :
          MouseMove(x, w) =>
             LET n == appState'.drawerWidth.n
             IN /\ appState'.drawerWidth.t = "num"
                /\ 5 * n <= 4 * w
                /\ 4 * w >= 5 * MinWidth => n >= MinWidth
                /\ (MinWidth <= x /\ 5 * x <= 4 * w) => n = x
                /\ 4 * w < 5 * MinWidth => 5 * n = 4 * w]_vars

\* a drag on a viewport 240 wide has ended and 192 is stored
C13_Witness ==
    /\ lastOp = "mouseup"
    /\ appState.drawerWidth = JNum(192)
    /\ stored.t = "json"
    /\ stored.f.drawerWidth = JNum(192)

\* C13 as stated: the width a mousemove stores lies between 200 and 0.8
\* times the viewport width, for every pointer position and viewport width.
C13_WithinRange ==
    [][\A x \in PointerXs, w \in InnerWidths :
          MouseMove(x, w) =>
             /\ MinWidth <= appState'.drawerWidth.n
             /\ 5 * appState'.drawerWidth.n <= 4 * w]_vars

-----------------------------------------------------------------------------
(* The index builders.                                                     *)

RECURSIVE SiblingLists(_)
\* the top-level list of a tree and the children list of each of its nodes
SiblingLists(nodes) ==
    {nodes} \cup UNION {SiblingLists(nodes[i].children) : i \in 1..Len(nodes)}

\* the place of each emitted name in ascending order, without regard to
\* case and with runs of digits read as numbers
NameRank(name) ==
    CASE name \in {<<"a", "pdf">>, <<"A", "PDF">>} -> 1
      [] name = <<"b", "JSON">> -> 2
      [] name = <<"d", "ppt">> -> 3
      [] name = <<"item 2">> -> 4
      [] name = <<"Item 2", "json">> -> 5
      [] name = <<"Item 10">> -> 6
      [] name = <<"Item 10", "pdf">> -> 7

RECURSIVE Kept(_)
\* a directory entry that is to appear in the index: not hidden, and a
\* file with a recognized extension in either case or a directory with
\* such an entry below it
Kept(e) ==
    /\ e.name[1] # ""
    /\ IF e.isDir THEN \E i \in 1..Len(e.entries) : Kept(e.entries[i])
       ELSE /\ Len(e.name) >= 2
            /\ e.name[Len(e.name)] \in {"json", "JSON", "pdf", "PDF", "pptx",
                                         "PPTX", "ppt", "PPT"}

RECURSIVE KeptIds(_, _)
\* the relative paths of the entries below id that are to appear
KeptIds(id, entries) ==
    UNION {IF Kept(entries[i])
           THEN {Append(id, entries[i].name)}
                   \cup KeptIds(Append(id, entries[i].name), entries[i].entries)
           ELSE {} : i \in 1..Len(entries)}

\* C14: in the tree scanDir returns every sibling list has its folders
\* before its files, and the folders and the files each in ascending
\* case-insensitive, numeric-aware order of their names; the hidden and
\* unrecognized entries of the folder make no difference to the tree.
C14_ScanOrder ==
    scanned.done =>
       /\ \A l \in SiblingLists(scanned.tree) :
             \A i, j \in 1..Len(l) :
                i < j =>
                   /\ l[i].isFolder \/ ~l[j].isFolder
                   /\ l[i].isFolder = l[j].isFolder =>
                         NameRank(l[i].name) <= NameRank(l[j].name)
       /\ scanned.tree = scanDir(<<DB>>, SelectSeq(disk, Kept))

\* the folder lists a file first and "Item 10" before "Item 2"
C14_Witness ==
    /\ scanned.done
    /\ Len(disk) = 3
    /\ disk[1].name = <<"Item 10", "pdf">>
    /\ disk[2].name = <<"Item 10">>
    /\ Len(scanned.tree) = 3
    /\ scanned.tree[1].name = <<"Item 10">>
    /\ scanned.tree[2].name = <<"Item 2", "json">>
    /\ scanned.tree[3].name = <<"Item 10", "pdf">>

\* C15: scanDir emits a file that is not hidden exactly when its extension
\* is json, pdf, pptx or ppt in either case, and a directory that is not
\* hidden exactly when an emitted entry lies below it; every emitted
\* folder has children.
C15_ScanEmits ==
    scanned.done =>
       /\ NodeIds(scanned.tree) = KeptIds(<<DB>>, disk)
       /\ \A i \in 1..Len(disk) :
             Kept(disk[i]) <=>
                \E k \in 1..Len(scanned.tree) :
                   /\ scanned.tree[k].name = disk[i].name
                   /\ scanned.tree[k].isFolder = disk[i].isDir
       /\ \A l \in SiblingLists(scanned.tree) :
             \A i \in 1..Len(l) :
                l[i].isFolder => l[i].hasChildren /\ Len(l[i].children) > 0

\* a folder with only a text file and a hidden folder below it, a hidden
\* json file and a file A.PDF: the file alone is emitted
C15_Witness ==
    /\ scanned.done
    /\ \E i, j \in 1..Len(disk) :
          /\ disk[i].name = <<"d">> /\ disk[i].isDir
          /\ disk[j].name = <<"", "hidden", "json">>
    /\ Len(scanned.tree) = 1
    /\ scanned.tree[1].name = <<"A", "PDF">>
    /\ scanned.tree[1].kind = "pdf"

RECURSIVE Preorder(_, _)
\* the nodes of a tree in depth-first pre-order, each with the names on
\* the way to it from the top level
Preorder(nodes, names) ==
    IF nodes = <<>> THEN <<>>
    ELSE <<[node |-> Head(nodes), names |-> Append(names, Head(nodes).name)]>>
            \o Preorder(Head(nodes).children, Append(names, Head(nodes).name))
            \o Preorder(Tail(nodes), names)

\* C16: the tree buildTreeFromFlatList returns holds no folder without
\* children and no folder without a file of a recognized kind below it.
C16_NoEmptyFolder ==
    (built.done /\ built.ok) =>
       \A i \in 1..Len(Preorder(built.tree, <<>>)) :
          LET n == Preorder(built.tree, <<>>)[i].node
          IN n.isFolder =>
                /\ Len(n.children) > 0
                /\ \E k \in 1..Len(Preorder(n.children, <<>>)) :
                      Preorder(n.children, <<>>)[k].node.kind # ""

\* C17: in the tree buildTreeFromFlatList returns every file node carries
\* the kind json, pdf or pptx that scanDir gives a file of its name, a
\* listed file scanDir gives no kind yields no node, and no node carries
\* data.
C17_FlatKinds ==
    (built.done /\ built.ok) =>
       /\ \A i \in 1..Len(Preorder(built.tree, <<>>)) :
             LET n == Preorder(built.tree, <<>>)[i].node
             IN /\ n.data = Absent
                /\ ~n.isFolder =>
                      /\ n.kind \in {"json", "pdf", "pptx"}
                      /\ <<n>> = ScanItem(SubSeq(n.id, 1, Len(n.id) - 1),
                                          Doc(n.name, FALSE, Absent))
       /\ \A e \in 1..Len(listing) :
             (/\ listing[e].type = "blob"
              /\ ScanItem(<<DB>>, Doc(listing[e].path[Len(listing[e].path)],
                                      FALSE, Absent)) = <<>>)
                => listing[e].path \notin NodeIds(built.tree)

\* C18: no two nodes of the tree buildTreeFromFlatList returns carry the
\* same id, whatever the order of the listing and however often a path
\* is listed.
C18_UniqueIds ==
    (built.done /\ built.ok) =>
       \A i, j \in 1..Len(Preorder(built.tree, <<>>)) :
          Preorder(built.tree, <<>>)[i].node.id
             = Preorder(built.tree, <<>>)[j].node.id => i = j

\* a file listed twice, after a file below the folder the listing names
\* only later
C18_Witness ==
    /\ built.done /\ built.ok
    /\ Len(listing) = 3
    /\ listing[1].path = <<DB, <<"docs">>, <<"a", "pdf">>>>
    /\ listing[2] = listing[1]
    /\ listing[3].path = <<DB, <<"docs">>>>
    /\ Len(Preorder(built.tree, <<>>)) = 2

\* a path is listed as a file or as a folder, and nothing is listed below
\* a file: what a git tree can list
Consistent(list) ==
    \A i, j \in 1..Len(list) :
       /\ list[i].path = list[j].path => list[i].type = list[j].type
       /\ list[i].type = "blob" =>
             ~(/\ Len(list[j].path) > Len(list[i].path)
               /\ SubSeq(list[j].path, 1, Len(list[i].path)) = list[i].path)

\* C19: for a listing under database/ each listed file with a recognized
\* extension is the id of exactly one node, a file node named by the last
\* segment, at the top level when it lies in database/ itself and else
\* among the children of the one node whose id is the path without its
\* last segment; the entry of database itself yields no node.
C19_FlatPlacement ==
    (built.done /\ Consistent(listing)) =>
       /\ built.ok
       /\ \A i \in 1..Len(Preorder(built.tree, <<>>)) :
             Preorder(built.tree, <<>>)[i].node.id # <<DB>>
       /\ \A e \in 1..Len(listing) :
             LET P == listing[e].path
                 pre == Preorder(built.tree, <<>>)
                 at == {i \in 1..Len(pre) : pre[i].node.id = P}
                 up == {i \in 1..Len(pre) :
                           pre[i].node.id = SubSeq(P, 1, Len(P) - 1)}
                 IsP(n) == n.id = P /\ n.name = P[Len(P)] /\ ~n.isFolder
             IN (listing[e].type = "blob" /\ KindOfName(P[Len(P)]) # "") =>
                   /\ Cardinality(at) = 1
                   /\ IF Len(P) = 2
                      THEN \E k \in 1..Len(built.tree) : IsP(built.tree[k])
                      ELSE /\ Cardinality(up) = 1
                           /\ \A u \in up :
                                 \E k \in 1..Len(pre[u].node.children) :
                                    IsP(pre[u].node.children[k])

\* the database folder, a file in it and a file below a folder that is not
\* listed itself
C19_Witness ==
    /\ built.done /\ built.ok
    /\ listing = <<Entry(<<DB, <<"docs">>, <<"a", "pdf">>>>, "blob"),
                   Entry(<<DB>>, "tree"),
                   Entry(<<DB, <<"b", "JSON">>>>, "blob")>>
    /\ Len(built.tree) = 2
    /\ built.tree[1].id = <<DB, <<"docs">>>>
    /\ built.tree[2].kind = "json"

-----------------------------------------------------------------------------
\* C20: findNode returns the first node in depth-first pre-order that
\* carries the id, findPath the names from the top level down to that
\* same node, and each returns null exactly when no node carries the id.
C20_FindFirstInPreorder ==
    \A id \in Ids :
       LET pre == Preorder(rootTree, <<>>)
           hits == {i \in 1..Len(pre) : pre[i].node.id = id}
       IN IF hits = {}
          THEN findNode(rootTree, id) = <<>> /\ findPath(rootTree, id) = <<>>
          ELSE LET first == CHOOSE i \in hits : \A k \in hits : i <= k
               IN /\ findNode(rootTree, id) = <<pre[first].node>>
                  /\ findPath(rootTree, id) = <<pre[first].names>>

\* an id carried by a node two folders down and by a later top-level node
\* has been selected
C20_Witness ==
    /\ lastOp = "select"
    /\ rootTree = TwinTree
    /\ appState.selectedId = JStr(SkriptId)
    /\ findNode(rootTree, SkriptId) # <<rootTree[3]>>
    /\ findPath(rootTree, SkriptId)
          = <<<<KursId[Len(KursId)], KursId[Len(KursId)],
                SkriptId[Len(SkriptId)]>>>>
    /\ findNode(rootTree, GoneId) = <<>>

-----------------------------------------------------------------------------
(* Activation of a json node.                                              *)

\* the data of the node findNode returns for id in tree
DataOf(tree, id) == findNode(tree, id)[1].data

\* this step appended a game frame to the view
FrameStarted ==
    /\ frames' # frames
    /\ Len(frames') > 0
    /\ \/ frames' = Append(frames, frames'[Len(frames')])
       \/ Len(frames') = 1

\* the parts of C21 that hold as stated: selecting a json node issues a
\* fetch exactly when the node carries no data, and a failed fetch starts
\* no game and leaves the node as it was
FetchIffNoData ==
    /\ \A id \in NodeIds(rootTree) :
          (SelectCall(id) /\ findNode(rootTree, id)[1].kind = "json") =>
             IF DataOf(rootTree, id) \in {Absent, NullV}
             THEN pending' = Append(pending, id) /\ frames' = <<>>
             ELSE pending' = pending /\ frames' = <<Frame(id)>>
    /\ \A i \in 1..Len(pending) :
          (lastOp' = "render" /\ RenderFetched(i, FALSE)) =>
             /\ frames' = <<>>
             /\ view' = View("error", pending[i])
             /\ rootTree' = rootTree
             /\ session' = session

\* C21: selecting a json node issues a fetch exactly when the node carries
\* no data; a failed fetch starts no game and leaves the node without
\* data; when a game frame is started, the payload of its node has been
\* written to the session entry of the node id if the payload is an
\* object, and the session entry is as before if the payload is null.
C21_BufferedWhenPayload ==
    [][/\ FetchIffNoData
       /\ FrameStarted =>
             LET id == frames'[Len(frames')].id
             IN IF DataOf(rootTree', id) \in {Absent, NullV}
                THEN session'[id] = session[id]
                ELSE session'[id] = DataOf(rootTree', id)]_vars

\* the game of a fetched file and then the game of the file that holds
\* null were started
C21_Witness ==
    /\ lastOp = "render"
    /\ Len(frames) = 2
    /\ frames[1].id = NeuId
    /\ frames[2].id = NullId
    /\ session[NeuId] = NeuData
    /\ session[NullId] = Absent
    /\ DataOf(rootTree, NullId) = NullV

\* C21 as stated: a game frame is started only after the payload of its
\* node has been written to the session entry of the node id.
C21_BufferedBeforeLoad ==
    [][/\ FetchIffNoData
       /\ FrameStarted =>
             LET id == frames'[Len(frames')].id
             IN /\ session'[id] # Absent
                /\ session'[id] = DataOf(rootTree', id)]_vars

-----------------------------------------------------------------------------
(* GameBase.init, frame by frame.                                          *)

\* the payload _loadPayload returned in this step to the frame of fileId id
Loaded(id) ==
    /\ Len(loads') = Len(loads) + 1
    /\ loads' = Append(loads, loads'[Len(loads')])
    /\ loads'[Len(loads')].id = id

\* the header of the payload returned in this step is in order for a game
\* that expects the type expected ("" for none)
HeaderInOrder(expected) ==
    LET p == loads'[Len(loads')].payload
        type == IF TruthyText(FieldOf(p, "game_type")) THEN FieldOf(p, "game_type")
                ELSE FieldOf(p, "gameType")
    IN /\ p.t \in {"obj", "arr"}
       /\ type.t \notin {"absent", "null"}
       /\ type # S("")
       /\ expected # "" => (type.t = "str" /\ type.s = expected)

\* C22: a frame reaches onDataLoaded only from a running init, at most once,
\* with a fileId resolved, a payload returned by _loadPayload and a header
\* in order for the type the game expects; an init that ends otherwise ends
\* in the fatal message, and an init without fileId ends there at once,
\* without a fetch, a load or a write to the session
C22_OnDataLoadedGuarded ==
    [][\A i \in 1..Len(frames) :
          /\ Len(frames') >= i
          /\ frames[i].st \in {"running", "fatal"} => frames'[i] = frames[i]
          /\ frames'[i].st \in {"loading", "fetching", "running", "fatal"}
          /\ (frames'[i].st = "running" /\ frames[i].st # "running") <=>
                /\ frames[i].st \in {"loading", "fetching"}
                /\ frames'[i] # frames[i]
                /\ frames[i].id # NoId
                /\ Loaded(frames[i].id)
                /\ HeaderInOrder(frames'[i].expected)
          /\ (frames[i].id = NoId /\ frames'[i] # frames[i]) =>
                /\ frames'[i].st = "fatal"
                /\ loads' = loads
                /\ session' = session]_vars

C22_Witness ==
    /\ lastOp = "gameInit"
    /\ Len(frames) = 2
    /\ frames[1] = [id |-> NoId, st |-> "fatal", expected |-> "quick_quiz"]
    /\ frames[2] = [id |-> QuizId, st |-> "running", expected |-> "quick_quiz"]
    /\ Len(loads) = 1

-----------------------------------------------------------------------------
(* The remote index over a failed rebuild.                                 *)

\* C23: from the confirm of clearDriveCache on the repository site to the
\* end of rebuildIndexFromGithub, every step but the one that ends a
\* successful rebuild leaves the key pauker_remote_index_v1 as it was: a
\* request that fails or answers without tree data, and a builder that
\* throws, store nothing
C23_FailedRebuildKeepsIndex ==
    [][((clearPc = "listing" \/ clearPc' = "listing") /\ lastOp' # "rebuilt")
          => remoteIndex' = remoteIndex]_vars

C23_Witness ==
    /\ lastOp = "rebuildThrew"
    /\ clearPc = "idle"
    /\ remoteIndex # NoIndex
    /\ remoteIndex.tree = buildTreeFromFlatList(InDatabase(FullListing)).tree

-----------------------------------------------------------------------------
(* Unreadable json files in the scan.                                      *)

RECURSIVE EntryAt(_, _)
\* the entry of a directory listing with the names on the way to it
EntryAt(items, names) ==
    IF Len(names) = 1
    THEN items[CHOOSE i \in 1..Len(items) : items[i].name = Head(names)]
    ELSE EntryAt(items[CHOOSE i \in 1..Len(items) :
                          items[i].name = Head(names)].entries, Tail(names))

\* a json file that is scanned and whose content JSON.parse rejects
Unreadable(e) ==
    /\ ~e.isDir /\ ~e.parses
    /\ e.name[1] # "" /\ Len(e.name) >= 2
    /\ e.name[Len(e.name)] \in {"json", "JSON"}

\* C24: a json file whose content cannot be parsed is emitted as a file
\* node of kind json without data; the scan of the same directory with
\* that file readable differs in the data of that one node only, and
\* every json node of the tree carries the parsed content of its own file
\* exactly when that file parses
C24_UnreadableJsonKept ==
    scanned.done =>
       /\ \A i \in 1..Len(disk) :
             Unreadable(disk[i]) =>
                \E k \in 1..Len(scanned.tree) :
                   /\ scanned.tree[k].name = disk[i].name
                   /\ ~scanned.tree[k].isFolder
                   /\ scanned.tree[k].kind = "json"
                   /\ scanned.tree[k].data = Absent
                   /\ scanDir(<<DB>>, [disk EXCEPT ![i] = Doc(disk[i].name, TRUE, QuizData)])
                         = [scanned.tree EXCEPT ![k].data = QuizData]
       /\ \A p \in 1..Len(Preorder(scanned.tree, <<>>)) :
             Preorder(scanned.tree, <<>>)[p].node.kind = "json" =>
                Preorder(scanned.tree, <<>>)[p].node.data
                   = IF EntryAt(disk, Preorder(scanned.tree, <<>>)[p].names).parses
                     THEN EntryAt(disk, Preorder(scanned.tree, <<>>)[p].names).text
                     ELSE Absent

\* an unreadable b.JSON listed first, a readable json file and a folder
\* with an unreadable json file below it
C24_Witness ==
    /\ scanned.done
    /\ Len(disk) = 3
    /\ Unreadable(disk[1])
    /\ disk[2].name = <<"Item 2", "json">>
    /\ disk[3].name = <<"item 2">>
    /\ Len(scanned.tree) = 3
    /\ Len(scanned.tree[1].children) = 3
    /\ scanned.tree[1].children[3].data = Absent
    /\ scanned.tree[2].name = <<"b", "JSON">>
    /\ scanned.tree[2].data = Absent
    /\ scanned.tree[3].data = QuizData

-----------------------------------------------------------------------------
(* A fetch of renderViewForId that ends after another node was selected.   *)

\* C25: when the last pending fetch of renderViewForId ends for a node
\* that is no longer the selected one, the view keeps the content of the
\* selected node and holds no game frame of another node.
C25_ViewFollowsSelection ==
    [][(/\ lastOp' = "render"
        /\ Len(pending) = 1
        /\ pending' = <<>>
        /\ appState.selectedId # JStr(pending[1]))
          => /\ view' = view
             /\ view'.id = appState'.selectedId.id
             /\ \A j \in 1..Len(frames') :
                   frames'[j].id = appState'.selectedId.id]_vars

-----------------------------------------------------------------------------
(* The flat builder over the orders of a listing.                          *)

\* the ids of a tree, each with whether its node is a folder
Classes(tree) ==
    {<<Preorder(tree, <<>>)[i].node.id, Preorder(tree, <<>>)[i].node.isFolder>> :
        i \in 1..Len(Preorder(tree, <<>>))}

\* the listing in the order perm
Reordered(list, perm) == [k \in 1..Len(list) |-> list[perm[k]]]

\* C26: the build of a listing completes without error, every path below
\* database that is a proper prefix of a listed path is a folder node of
\* the tree, and the build of every other order of the listing completes
\* as well and classifies every path the same way.
C26_OrderIndependent ==
    built.done =>
       /\ built.ok
       /\ \A e \in 1..Len(listing) :
             \A i \in 2..(Len(listing[e].path) - 1) :
                <<SubSeq(listing[e].path, 1, i), TRUE>> \in Classes(built.tree)
       /\ \A perm \in Permutations(1..Len(listing)) :
             /\ buildTreeFromFlatList(Reordered(listing, perm)).ok
             /\ Classes(buildTreeFromFlatList(Reordered(listing, perm)).tree)
                   = Classes(built.tree)

-----------------------------------------------------------------------------
(* The shuffle targets of the flat content types, one by one.              *)

\* the members of a payload of the type that are shuffle targets
FlatTargets(type) ==
    CASE type = "matching_puzzle" -> {"sets"}
      [] type = "sortier_spiel" -> {"cards", "columns"}
      [] type = "quick_quiz" -> {"questions", "answerLabels"}
      [] type = "wer_bin_ich" -> {"legalForms", "questions"}
      [] OTHER -> {}

\* the arrays with the elements of array a in every order
Arrangements(a) ==
    {A([i \in 1..Len(a.e) |-> a.e[p[i]]]) : p \in Permutations(1..Len(a.e))}

\* what the member f holds over all the outcomes of _randomizePayload on
\* the payload handed in
OutcomesOf(f) ==
    {FieldOf(StringifyV(o.h, o.v), f) : o \in RandomizePayload(heap, data)}

\* C27: _randomizePayload returns for a payload of a flat content type,
\* and for each shuffle target of the type on its own: a target that is an
\* array comes back in every order of its elements and in no other value,
\* whatever the other targets of the type hold, and a target that is
\* absent or no array comes back as it was.
C27_TargetsIndependent ==
    (phase = "done" /\ data.t = "ref") =>
       \A f \in FlatTargets(TextType(orig)) :
          /\ ok
          /\ OutcomesOf(f) = IF FieldOf(orig, f).t = "arr"
                             THEN Arrangements(FieldOf(orig, f))
                             ELSE {FieldOf(orig, f)}

-----------------------------------------------------------------------------
(* shuffle as a map from the indices drawn to the orders of the array.     *)

\* the order shuffle gives the elements of the input when it draws js
OrderFor(js) == FisherYates(orig.e, Len(orig.e), js)

\* C28: on an array of n different elements the order shuffle returns is
\* an arrangement of the input, no other sequence of indices j (j up to i,
\* for i from n down to 2) gives the same order, there are as many
\* sequences as arrangements, and an array of length 0 or 1 comes back as
\* it is; the input array itself keeps its order.
C28_ChoicesMatchOrders ==
    phase = "done" =>
       /\ ResultText \in Arrangements(orig)
       /\ StringifyV(heap, data) = orig
       /\ \A js \in ChoiceSeqs(Len(orig.e)) :
             OrderFor(js) = ResultText.e
                => drawn = [i \in 1..(Len(orig.e) - 1) |-> js[Len(orig.e) + 1 - i]]
       /\ Cardinality(ChoiceSeqs(Len(orig.e))) = Cardinality(Arrangements(orig))
       /\ Len(orig.e) <= 1 => ResultText = orig

\* four elements come back in reverse order
C28_Witness ==
    /\ phase = "done"
    /\ Len(orig.e) = 4
    /\ ResultText.e = [i \in 1..4 |-> orig.e[5 - i]]
    /\ Len(drawn) = 3

-----------------------------------------------------------------------------
(* The content type of a payload, in the dispatch and in the header check. *)

\* game_type, and gameType when game_type is absent or empty
StatedType(raw) ==
    IF FieldOf(raw, "game_type").t = "absent" \/ FieldOf(raw, "game_type") = S("")
    THEN FieldOf(raw, "gameType")
    ELSE FieldOf(raw, "game_type")

\* the text _loadPayload read in the step that loaded for frame i: the
\* session entry in init, the file after the fetch
ReadFor(i) ==
    IF lastOp' = "gameInit" THEN session[frames[i].id] ELSE FileData(frames[i].id)

\* C29: when a payload object is loaded for a frame, the members that come
\* back changed are shuffle targets of the type its game_type states, or
\* of the type its gameType states when game_type is absent or empty, and
\* the header check passes exactly when that same type is not empty and
\* is the type the game expects, if it expects one.
C29_OneTypeDecides ==
    [][\A i \in 1..Len(frames) :
          (/\ Len(frames') >= i
           /\ frames'[i] # frames[i]
           /\ Loaded(frames[i].id)
           /\ ReadFor(i).t = "obj") =>
             /\ \A k \in 1..Len(Fields) :
                   FieldOf(loads'[Len(loads')].payload, Fields[k])
                         # FieldOf(ReadFor(i), Fields[k])
                      => /\ StatedType(ReadFor(i)).t = "str"
                         /\ Fields[k] \in FlatTargets(StatedType(ReadFor(i)).s)
             /\ frames'[i].st = "running" <=>
                   /\ StatedType(ReadFor(i)).t # "absent"
                   /\ StatedType(ReadFor(i)) # S("")
                   /\ frames'[i].expected # "" =>
                         StatedType(ReadFor(i)) = S(frames'[i].expected)]_vars

\* the payload with game_type quick_quiz and gameType matching_puzzle was
\* loaded for a game that expects quick_quiz: its questions changed order,
\* its sets did not, and the game runs
C29_Witness ==
    /\ lastOp = "gameInit"
    /\ Len(frames) = 1
    /\ frames[1] = [id |-> QuizId, st |-> "running", expected |-> "quick_quiz"]
    /\ Len(loads) = 1
    /\ FieldOf(loads[1].payload, "gameType") = S("matching_puzzle")
    /\ FieldOf(loads[1].payload, "questions") = A(<<S("b"), S("a")>>)
    /\ FieldOf(loads[1].payload, "sets") = Strs(2)

-----------------------------------------------------------------------------
(* _loadPayload: the session entry and the fetch.                          *)

\* C30: _loadPayload goes to its fetch only when the session entry of the
\* fileId is missing, corrupt or no object; when the fetch answers, the
\* payload returned is the one the session entry holds afterwards; when
\* it fails, init ends in the fatal message with nothing returned and the
\* session as it was.
C30_FetchOnlyWithoutEntry ==
    [][\A i \in 1..Len(frames) :
          (Len(frames') >= i /\ frames'[i] # frames[i]) =>
             /\ (frames[i].st = "loading" /\ frames'[i].st = "fetching")
                   => session[frames[i].id].t \notin {"obj", "arr"}
             /\ (frames[i].st = "fetching" /\ Loaded(frames[i].id))
                   => session'[frames[i].id] = loads'[Len(loads')].payload
             /\ (frames[i].st = "fetching" /\ ~Loaded(frames[i].id))
                   => /\ frames'[i].st = "fatal"
                      /\ session' = session
                      /\ loads' = loads]_vars

-----------------------------------------------------------------------------
(* The two builders on the same content.                                   *)

\* what a tree says of each of its nodes but for the order of siblings and
\* the data: id, name, folder or file, kind and the ids of its children
Shape(tree) ==
    {[id |-> Preorder(tree, <<>>)[i].node.id,
      name |-> Preorder(tree, <<>>)[i].node.name,
      isFolder |-> Preorder(tree, <<>>)[i].node.isFolder,
      kind |-> Preorder(tree, <<>>)[i].node.kind,
      children |-> {Preorder(tree, <<>>)[i].node.children[k].id :
                       k \in 1..Len(Preorder(tree, <<>>)[i].node.children)}] :
        i \in 1..Len(Preorder(tree, <<>>))}

\* C31: for a database folder whose files all have recognized extensions,
\* without hidden names and empty directories, scanDir on the folder and
\* buildTreeFromFlatList on its listing return trees with the same nodes
\* (id, name, folder or file, kind), the same children for every node and
\* the same top-level nodes, and no node of either tree occurs twice.
C31_BuildersAgree ==
    (scanned.done /\ built.done) =>
       /\ built.ok
       /\ Shape(built.tree) = Shape(scanned.tree)
       /\ {built.tree[k].id : k \in 1..Len(built.tree)}
             = {scanned.tree[k].id : k \in 1..Len(scanned.tree)}
       /\ Len(Preorder(built.tree, <<>>)) = Cardinality(Shape(built.tree))
       /\ Len(Preorder(scanned.tree, <<>>)) = Cardinality(Shape(scanned.tree))

\* a folder with a file and a folder below it, a file A.PDF and a json
\* file, listed from the bottom up
C31_Witness ==
    /\ scanned.done /\ built.done
    /\ Len(disk) = 3
    /\ disk[1].name = <<"A", "PDF">>
    /\ disk[2].name = <<"d">>
    /\ disk[3].name = <<"Item 2", "json">>
    /\ listing[1].path = <<DB, <<"Item 2", "json">>>>
    /\ Len(listing) = 6
    /\ built.tree # scanned.tree
    /\ Cardinality(Shape(built.tree)) = 6

-----------------------------------------------------------------------------
(* _randomizePayload on elements that are no objects.                      *)

\* C32: _randomizePayload returns, without raising, for every object
\* payload of a known content type.
C32_TotalOnKnownTypes ==
    (phase = "done" /\ orig.t = "obj" /\ TextType(orig) \in KnownTypes) => ok

-----------------------------------------------------------------------------
(* The payloads of one session.                                            *)

\* C33: in a session that starts with an empty payload cache, every
\* payload _loadPayload returned for a fileId and every payload the
\* session holds for a node id is the data of that file with its shuffle
\* targets permuted and nothing else changed.
C33_SessionHoldsVariants ==
    /\ \A i \in 1..Len(loads) :
          loads[i].id \in FileIds /\
          Similar(FileData(loads[i].id), loads[i].payload,
                  TextType(FileData(loads[i].id)))
    /\ \A id \in Ids :
          session[id] # Absent =>
             id \in FileIds /\
             Similar(FileData(id), session[id], TextType(FileData(id)))

\* a load found no session entry, fetched the file and stored it with the
\* questions in reverse order, and a second load read that entry and
\* returned the questions in the order of the file
C33_Witness ==
    /\ lastOp = "gameInit"
    /\ Len(loads) = 2
    /\ loads[1].id = QuizId /\ loads[2].id = QuizId
    /\ session[QuizId] = loads[1].payload
    /\ session[QuizId] # QuizData
    /\ loads[2].payload = QuizData

-----------------------------------------------------------------------------
\* C34: when the page reloads at the end of a confirmed clearDriveCache,
\* at once or after the awaited remote listing, the state key and the
\* session payload cache are empty.
C34_EmptyAtReload ==
    [][(\/ ClearDriveCache /\ lastOp' = "clear" /\ page' = "unloaded"
        \/ RebuildFetched) =>
          /\ stored' = NoBlob
          /\ session' = NoSession]_vars

-----------------------------------------------------------------------------
\* C35: the content view never holds more than one game frame.
C35_AtMostOneFrame == Len(frames) <= 1

-----------------------------------------------------------------------------
\* the positions at which id stands in the list l
Places(l, id) == {i \in 1..Len(l) : l[i] = id}

\* C36: from an openedIds without duplicates, toggleNode calls keep
\* openedIds without duplicates: a toggleNode(id) that adds id leaves it
\* at the end and nowhere else, one that removes id leaves it nowhere, the
\* other ids stay where they were in order, and a selection between two
\* toggles leaves the list as it is; so includes(id) is true exactly when
\* the last toggleNode(id) added it.
C36_NoIdTwice ==
    [][/\ appState'.openedIds.t = "list" =>
             \A id \in Ids : Cardinality(Places(appState'.openedIds.l, id)) <= 1
       /\ \A id \in Ids :
             ToggleCall(id) /\ lastOp' = "toggle" =>
                LET l == appState.openedIds.l
                    m == appState'.openedIds.l
                IN /\ IF Places(l, id) = {}
                      THEN Places(m, id) = {Len(m)} /\ Len(m) = Len(l) + 1
                      ELSE Places(m, id) = {} /\ Len(m) = Len(l) - 1
                   /\ SelectSeq(m, LAMBDA x : x # id)
                         = SelectSeq(l, LAMBDA x : x # id)
                   /\ Restored'.openedIds = appState'.openedIds
       /\ lastOp' = "select" => appState'.openedIds = appState.openedIds]_vars

\* on the index with twin ids, the folder and the id of no node are open
\* after toggles, the folder first
C36_Witness ==
    /\ lastOp = "toggle"
    /\ remoteIndex.t = "json"
    /\ appState.openedIds = JList(<<KursId, GoneId>>)
    /\ Restored.openedIds = JList(<<KursId, GoneId>>)

====
